---------------------------- MODULE Spec2Model ----------------------------
(***************************************************************************)
(* A model of notion-public-export: the exporter (notion_public_export.py) *)
(* and the importer (notion_import.py).  Text is modelled as TLA+ strings; *)
(* a character is a string of length one.                                  *)
(***************************************************************************)
EXTENDS Integers, Sequences, FiniteSets, TLC

VARIABLES
    status,            \* export run: "init", "running", "done", "crashed"
    root_url,          \* the argument of export_tree
    remote,            \* the remote page graph (a set of edges), fixed per run
    skip_titles,       \* NotionPublicExporter.skip_titles
    seen_pages,        \* NotionPublicExporter.seen_pages
    page_title_cache,  \* NotionPublicExporter._page_title_cache
    stack,             \* the call stack of _export_page (top is the last frame)
    calls,             \* per identifier: calls of _export_page
    bodies,            \* per identifier: executions of the body of _export_page
    writes,            \* per identifier: index.md files written for it
    title_fetches,     \* per identifier: record maps fetched by _get_page_title
    files,             \* the output tree: path of a page directory -> identifier
    queries,           \* the calls of query_collection: the response, what it returned or raised
    failed_fetches,    \* the pages whose fetch_record_map raised in _export_page
    f_pc,              \* fetch_record_map: "idle", "request", "fallback", "done", "raised"
    cursor,            \* fetch_record_map: the cursor of the next payload
    chunk_number,      \* fetch_record_map: the chunkNumber of the next payload
    merged_blocks,     \* fetch_record_map: the accumulated block mapping
    requests,          \* the payloads posted so far, in order
    responses,         \* the chunks received so far, in order
    delays,            \* per request posted: whether time.sleep(self.delay) ran after it
    n_in,              \* normalisers: the identifier or URL given
    n_http,            \* normalisers: what session.get answers for a URL
    n_done,            \* normalisers: the calls made so far
    n_exp,             \* the result of _normalize_page_id(n_in)
    n_imp,             \* the result of _normalize_id(n_in)
    n_exp2,            \* the result of _normalize_page_id on its own result
    n_imp2,            \* the result of _normalize_id on its own result
    rt_pc,             \* rich text: "idle", "span", "markdown", "parsed"
    rt_rich,           \* the rich text given to _rich_text_to_markdown
    rt_markdown,       \* the Markdown it returned
    rt_segments,       \* what _rich_text made of that Markdown
    doc_pc,            \* a document: "idle", "markdown", "parsed", "stored", "rendered", "reparsed"
    doc_markdown,      \* the Markdown given to _parse_markdown
    doc_parsed,        \* the blocks _parse_markdown made of it
    doc_blocks,        \* the record map of the page: block identifier -> block
    doc_out,           \* the writes of the exporter to index.md, in order
    doc_reparsed,      \* the blocks _parse_markdown made of that index.md
    imp_pc,            \* import_directory: "idle", "start", "loop"
    imp_dirs,          \* the relative paths of the directories that hold an index.md
    imp_pages,         \* the sorted list of pages still to import
    created_pages,     \* str(rel_path) -> the identifier of the page created for it
    imp_attempts,      \* the calls of create_page, in order: path, parent_id, ok
    remote_pages,      \* the paths for which pages.create made a page in the workspace
    cp_pc,             \* create_page: "idle", "start", "append", "returned", "raised"
    content_blocks,    \* the blocks create_page was given
    remaining_blocks,  \* the blocks not yet sent
    cp_calls,          \* the calls the service received, in order: op, children
    img_pc,            \* the import of a page with images: "idle", "parse", "created"
    file_uploader,     \* the importer's uploader: its kind and its public_url_base
    img_sources,       \* the sources of the image lines still to parse
    img_blocks,        \* the blocks parsed so far
    s3_objects,        \* the keys of the objects stored in the bucket
    img_uploads,       \* the calls of CloudflareR2Uploader.upload: file, outcome, url
    img_page,          \* the blocks of the page that was created
    dl_pc,             \* the downloads of a run: "idle", "call", "sign", "fetch", "crashed"
    dl_ref,            \* the arguments of the call of _download_file under way
    dl_url,            \* its local variable url
    dl_files,          \* the files under the output tree: page directory and name in assets/
    dl_requests,       \* the requests sent: the call, "sign" or "get", the URL, the answer
    dl_returns,        \* the calls of _download_file that ended: arguments, resolved URL, result
    pm_pc,             \* _parse_markdown on lines of every kind: "idle", "markdown", "parsed"
    pm_markdown,       \* the Markdown given to it
    pm_blocks,         \* the blocks it returned
    sc_pc,             \* _parse_rich_text_recursive call by call: "idle", "text", "running", "done"
    sc_parts,          \* the number of pieces the text was put together from
    sc_text,           \* the text given to the first call
    sc_stack,          \* the calls under way, the first call at the bottom
    sc_segments,       \* the segments appended so far
    sc_spans,          \* for each segment: where in sc_text its text was taken from
    sc_delims          \* the positions of sc_text taken off as delimiters of matched constructs

exportVars == <<status, root_url, remote, skip_titles, seen_pages, page_title_cache,
                stack, calls, bodies, writes, title_fetches, files, queries, failed_fetches>>
fetchVars == <<f_pc, cursor, chunk_number, merged_blocks, requests, responses, delays>>

normVars == <<n_in, n_http, n_done, n_exp, n_imp, n_exp2, n_imp2>>
richTextVars == <<rt_pc, rt_rich, rt_markdown, rt_segments>>
documentVars == <<doc_pc, doc_markdown, doc_parsed, doc_blocks, doc_out, doc_reparsed>>
importVars == <<imp_pc, imp_dirs, imp_pages, created_pages, imp_attempts, remote_pages>>
createVars == <<cp_pc, content_blocks, remaining_blocks, cp_calls>>
imageVars == <<img_pc, file_uploader, img_sources, img_blocks, s3_objects, img_uploads, img_page>>
downloadVars == <<dl_pc, dl_ref, dl_url, dl_files, dl_requests, dl_returns>>
parseVars == <<pm_pc, pm_markdown, pm_blocks>>
scanVars == <<sc_pc, sc_parts, sc_text, sc_stack, sc_segments, sc_spans, sc_delims>>

vars == <<exportVars, fetchVars, normVars, richTextVars, documentVars, importVars, createVars, imageVars, downloadVars, parseVars, scanVars>>

\* what each part of the model leaves alone
notExport == <<fetchVars, normVars, richTextVars, documentVars, importVars, createVars, imageVars, downloadVars, parseVars, scanVars>>
notFetch == <<exportVars, normVars, richTextVars, documentVars, importVars, createVars, imageVars, downloadVars, parseVars, scanVars>>
notNorm == <<exportVars, fetchVars, richTextVars, documentVars, importVars, createVars, imageVars, downloadVars, parseVars, scanVars>>
notRichText == <<exportVars, fetchVars, normVars, documentVars, importVars, createVars, imageVars, downloadVars, parseVars, scanVars>>
notDocument == <<exportVars, fetchVars, normVars, richTextVars, importVars, createVars, imageVars, downloadVars, parseVars, scanVars>>
notImport == <<exportVars, fetchVars, normVars, richTextVars, documentVars, createVars, imageVars, downloadVars, parseVars, scanVars>>
notCreate == <<exportVars, fetchVars, normVars, richTextVars, documentVars, importVars, imageVars, downloadVars, parseVars, scanVars>>
notImage == <<exportVars, fetchVars, normVars, richTextVars, documentVars, importVars, createVars, downloadVars, parseVars, scanVars>>
notDownload == <<exportVars, fetchVars, normVars, richTextVars, documentVars, importVars, createVars, imageVars, parseVars, scanVars>>
notParse == <<exportVars, fetchVars, normVars, richTextVars, documentVars, importVars, createVars, imageVars, downloadVars, scanVars>>
notScan == <<exportVars, fetchVars, normVars, richTextVars, documentVars, importVars, createVars, imageVars, downloadVars, parseVars>>

\* the parts of the program a specification does not run stay in these states
IdleExport ==
    /\ status = "idle" /\ root_url = "" /\ remote = {} /\ skip_titles = {}
    /\ seen_pages = {} /\ page_title_cache = <<>> /\ stack = <<>>
    /\ calls = <<>> /\ bodies = <<>> /\ writes = <<>> /\ title_fetches = <<>>
    /\ files = <<>> /\ queries = <<>> /\ failed_fetches = {}
IdleFetch ==
    /\ f_pc = "idle" /\ cursor = <<>> /\ chunk_number = 0 /\ merged_blocks = <<>>
    /\ requests = <<>> /\ responses = <<>> /\ delays = <<>>
IdleNorm ==
    /\ n_in = "" /\ n_http = <<>> /\ n_done = {}
    /\ n_exp = <<>> /\ n_imp = <<>> /\ n_exp2 = <<>> /\ n_imp2 = <<>>

IdleRichText ==
    /\ rt_pc = "idle" /\ rt_rich = <<>> /\ rt_markdown = "" /\ rt_segments = <<>>

IdleDocument ==
    /\ doc_pc = "idle" /\ doc_markdown = "" /\ doc_parsed = <<>> /\ doc_blocks = <<>>
    /\ doc_out = <<>> /\ doc_reparsed = <<>>

IdleImport ==
    /\ imp_pc = "idle" /\ imp_dirs = {} /\ imp_pages = <<>> /\ created_pages = <<>>
    /\ imp_attempts = <<>> /\ remote_pages = {}

IdleCreate ==
    /\ cp_pc = "idle" /\ content_blocks = <<>> /\ remaining_blocks = <<>> /\ cp_calls = <<>>

IdleImage ==
    /\ img_pc = "idle" /\ file_uploader = <<>> /\ img_sources = <<>> /\ img_blocks = <<>>
    /\ s3_objects = {} /\ img_uploads = <<>> /\ img_page = <<>>

IdleDownload ==
    /\ dl_pc = "idle" /\ dl_ref = <<>> /\ dl_url = "" /\ dl_files = {}
    /\ dl_requests = <<>> /\ dl_returns = <<>>

IdleParse ==
    /\ pm_pc = "idle" /\ pm_markdown = "" /\ pm_blocks = <<>>

IdleScan ==
    /\ sc_pc = "idle" /\ sc_parts = 0 /\ sc_text = "" /\ sc_stack = <<>> /\ sc_segments = <<>>
    /\ sc_spans = <<>> /\ sc_delims = {}

\* every part but the one under study stays as constructed
IdleExcept(part) ==
    /\ part # "export" => IdleExport
    /\ part # "fetch" => IdleFetch
    /\ part # "normalize" => IdleNorm
    /\ part # "rich text" => IdleRichText
    /\ part # "document" => IdleDocument
    /\ part # "import" => IdleImport
    /\ part # "create" => IdleCreate
    /\ part # "image" => IdleImage
    /\ part # "download" => IdleDownload
    /\ part # "parse" => IdleParse
    /\ part # "scan" => IdleScan

---------------------------------------------------------------------------
(* Characters and strings *)

\* s[i-1:j] of Python (positions are 1-based here), clamped to the string as a slice is
Sub(s, i, j) ==
    LET a == IF i < 1 THEN 1 ELSE i
        b == IF j > Len(s) THEN Len(s) ELSE j
    IN  IF a > b THEN "" ELSE SubSeq(s, a, b)

\* the character at position i, "" outside the string
Char(s, i) == IF i >= 1 /\ i <= Len(s) THEN SubSeq(s, i, i) ELSE ""

Digits == {"0", "1", "2", "3", "4", "5", "6", "7", "8", "9"}
UpperLetters == {"A", "B", "C", "D", "E", "F", "G", "H", "I", "J", "K", "L", "M",
                 "N", "O", "P", "Q", "R", "S", "T", "U", "V", "W", "X", "Y", "Z"}
LowerLetters == {"a", "b", "c", "d", "e", "f", "g", "h", "i", "j", "k", "l", "m",
                 "n", "o", "p", "q", "r", "s", "t", "u", "v", "w", "x", "y", "z"}
HexChars == Digits \cup {"a", "b", "c", "d", "e", "f", "A", "B", "C", "D", "E", "F"}

LowerOf == [c \in UpperLetters |->
              CASE c = "A" -> "a" [] c = "B" -> "b" [] c = "C" -> "c" [] c = "D" -> "d"
                [] c = "E" -> "e" [] c = "F" -> "f" [] c = "G" -> "g" [] c = "H" -> "h"
                [] c = "I" -> "i" [] c = "J" -> "j" [] c = "K" -> "k" [] c = "L" -> "l"
                [] c = "M" -> "m" [] c = "N" -> "n" [] c = "O" -> "o" [] c = "P" -> "p"
                [] c = "Q" -> "q" [] c = "R" -> "r" [] c = "S" -> "s" [] c = "T" -> "t"
                [] c = "U" -> "u" [] c = "V" -> "v" [] c = "W" -> "w" [] c = "X" -> "x"
                [] c = "Y" -> "y" [] c = "Z" -> "z"]

RECURSIVE Lower(_)
\* str.lower()
Lower(s) ==
    IF s = "" THEN ""
    ELSE (IF Head(s) \in UpperLetters THEN LowerOf[Head(s)] ELSE Head(s)) \o Lower(Tail(s))

\* str.startswith(p)
StartsWith(s, p) == Len(s) >= Len(p) /\ Sub(s, 1, Len(p)) = p

\* the text of s from position i (1-based) to the end
From(s, i) == Sub(s, i, Len(s))

\* the least position at or after i where p occurs in s, 0 when there is none
FindFrom(s, p, i) ==
    LET hits == {k \in i..(Len(s) - Len(p) + 1) : SubSeq(s, k, k + Len(p) - 1) = p}
    IN  IF hits = {} THEN 0 ELSE CHOOSE k \in hits : \A j \in hits : k <= j

\* str.find(p) + 1
Find(s, p) == FindFrom(s, p, 1)

\* p in s
Contains(s, p) == Find(s, p) # 0

\* the whitespace of the model's texts
WhiteSpace == {" ", "\n"}

RECURSIVE LStrip(_)
\* str.lstrip()
LStrip(s) == IF s # "" /\ Head(s) \in WhiteSpace THEN LStrip(Tail(s)) ELSE s

RECURSIVE RStrip(_)
\* str.rstrip()
RStrip(s) ==
    IF s # "" /\ Char(s, Len(s)) \in WhiteSpace THEN RStrip(Sub(s, 1, Len(s) - 1)) ELSE s

\* str.strip()
Strip(s) == RStrip(LStrip(s))

AllHex(s, i, n) == i >= 1 /\ i + n - 1 <= Len(s) /\ \A k \in i..(i + n - 1) : Char(s, k) \in HexChars

---------------------------------------------------------------------------
(* Identifier normalisation *)

\* [0-9a-fA-F]{32} matches at position i
Hex32At(s, i) == AllHex(s, i, 32)

\* [0-9a-fA-F]{8}-[0-9a-fA-F]{4}-[0-9a-fA-F]{4}-[0-9a-fA-F]{4}-[0-9a-fA-F]{12} at i
UuidAt(s, i) ==
    /\ i >= 1 /\ i + 35 <= Len(s)
    /\ AllHex(s, i, 8) /\ Char(s, i + 8) = "-"
    /\ AllHex(s, i + 9, 4) /\ Char(s, i + 13) = "-"
    /\ AllHex(s, i + 14, 4) /\ Char(s, i + 18) = "-"
    /\ AllHex(s, i + 19, 4) /\ Char(s, i + 23) = "-"
    /\ AllHex(s, i + 24, 12)

\* the least element of a non-empty set of positions, 0 for the empty set
Least(S) == IF S = {} THEN 0 ELSE CHOOSE k \in S : \A j \in S : k <= j

\* re.search(r'([0-9a-fA-F]{32})', s): the start of the match, 0 for no match
SearchHex32(s) == Least({i \in 1..Len(s) : Hex32At(s, i)})

\* re.search of the hyphenated pattern: the start of the match, 0 for no match
SearchUuid(s) == Least({i \in 1..Len(s) : UuidAt(s, i)})

\* f"{raw[0:8]}-{raw[8:12]}-{raw[12:16]}-{raw[16:20]}-{raw[20:32]}"
Hyphenate(raw) ==
    SubSeq(raw, 1, 8) \o "-" \o SubSeq(raw, 9, 12) \o "-" \o SubSeq(raw, 13, 16)
        \o "-" \o SubSeq(raw, 17, 20) \o "-" \o SubSeq(raw, 21, 32)


RECURSIVE SkipSpaces(_, _)
\* \s* from position i: the position after the white space
SkipSpaces(s, i) == IF i <= Len(s) /\ Char(s, i) \in {" ", "\n", "\t"} THEN SkipSpaces(s, i + 1) ELSE i

\* "pageId"\s*:\s*"(<uuid>)" matches at i: the start of the group, else 0
PageIdAt(html, i) ==
    LET key == "\"pageId\""
        a == SkipSpaces(html, i + Len(key))
        b == SkipSpaces(html, a + 1)
    IN  IF /\ Sub(html, i, i + Len(key) - 1) = key
           /\ Char(html, a) = ":"
           /\ Char(html, b) = "\""
           /\ UuidAt(html, b + 1)
           /\ Char(html, b + 37) = "\""
        THEN b + 1 ELSE 0

\* re.search of the pageId pattern: the start of its group, 0 for no match
SearchPageId(html) ==
    LET hits == {i \in 1..Len(html) : PageIdAt(html, i) # 0}
    IN  IF hits = {} THEN 0 ELSE PageIdAt(html, Least(hits))

Resolved(id) == [ok |-> TRUE, id |-> id]
ValueError == [ok |-> FALSE, id |-> ""]

\* NotionPublicExporter._normalize_page_id; http is the answer of session.get(url)
\* (http.ok is FALSE for a RequestException or a failing raise_for_status)
NormalizePageId(url_or_id, http) ==
    LET m == SearchHex32(url_or_id)
        m_uuid == SearchUuid(url_or_id)
        fallback == m = 0 /\ m_uuid = 0
                    /\ (StartsWith(url_or_id, "http://") \/ StartsWith(url_or_id, "https://"))
    IN  IF ~fallback
        THEN IF m = 0 /\ m_uuid = 0 THEN ValueError
             ELSE IF m_uuid # 0 THEN Resolved(Lower(SubSeq(url_or_id, m_uuid, m_uuid + 35)))
             ELSE Resolved(Hyphenate(Lower(SubSeq(url_or_id, m, m + 31))))
        ELSE IF ~http.ok THEN ValueError
        ELSE LET html == http.html
                 m_page_id == SearchPageId(html)
                 h_uuid == IF m_page_id # 0 THEN m_page_id ELSE SearchUuid(html)
                 h_m == IF h_uuid = 0 THEN SearchHex32(html) ELSE 0
             IN  IF h_m = 0 /\ h_uuid = 0 THEN ValueError
                 ELSE IF h_uuid # 0 THEN Resolved(Lower(SubSeq(html, h_uuid, h_uuid + 35)))
                 ELSE Resolved(Hyphenate(Lower(SubSeq(html, h_m, h_m + 31))))

\* str.split(sep)[-1]
RECURSIVE AfterLast(_, _)
AfterLast(s, sep) ==
    LET k == Find(s, sep) IN IF k = 0 THEN s ELSE AfterLast(From(s, k + 1), sep)

\* str.split(sep)[0]
BeforeFirst(s, sep) ==
    LET k == Find(s, sep) IN IF k = 0 THEN s ELSE SubSeq(s, 1, k - 1)

\* NotionImporter._normalize_id
NormalizeId(page_id) ==
    LET p1 == IF Contains(page_id, "/") THEN AfterLast(page_id, "/") ELSE page_id
        p2 == IF Contains(p1, "?") THEN BeforeFirst(p1, "?") ELSE p1
        tail32 == Len(p2) >= 32 /\ Hex32At(p2, Len(p2) - 31)
        match_uuid == SearchUuid(p2)
    IN  IF tail32 THEN Hyphenate(Lower(SubSeq(p2, Len(p2) - 31, Len(p2))))
        ELSE IF match_uuid # 0 THEN Lower(SubSeq(p2, match_uuid, match_uuid + 35))
        ELSE p2

---------------------------------------------------------------------------
(* The export pipeline: export_tree and _export_page *)

WordChars == Digits \cup UpperLetters \cup LowerLetters \cup {"_"}

RECURSIVE SubNonWord(_, _)
\* re.sub(r"[^\w\-]+", "-", s): inRun says that the previous character was replaced
SubNonWord(s, inRun) ==
    IF s = "" THEN ""
    ELSE IF Head(s) \in WordChars \cup {"-"} THEN Head(s) \o SubNonWord(Tail(s), FALSE)
    ELSE IF inRun THEN SubNonWord(Tail(s), TRUE)
    ELSE "-" \o SubNonWord(Tail(s), TRUE)

RECURSIVE StripLeft(_, _)
\* str.lstrip(c)
StripLeft(s, c) == IF s # "" /\ Head(s) = c THEN StripLeft(Tail(s), c) ELSE s

RECURSIVE StripRight(_, _)
\* str.rstrip(c)
StripRight(s, c) ==
    IF s # "" /\ Char(s, Len(s)) = c THEN StripRight(Sub(s, 1, Len(s) - 1), c) ELSE s

\* NotionPublicExporter._slugify
Slugify(text) ==
    LET slug == StripRight(StripLeft(SubNonWord(Lower(text), FALSE), "-"), "-")
    IN  IF slug = "" THEN "page" ELSE slug

\* The remote workspace of the model: three pages, and a second spelling of one
IdR == "1a2b3c4d-5e6f-7890-1a2b-3c4d5e6f7890"
IdA == "aaaaaaaa-bbbb-cccc-dddd-eeeeeeeeeeee"
IdB == "0f0f0f0f-0000-1111-2222-333333333333"
IdA32 == "AAAAAAAABBBBCCCCDDDDEEEEEEEEEEEE"
CanonPages == {IdR, IdA, IdB}
RawIds == CanonPages \cup {IdA32}
RawOrder == <<IdR, IdA, IdB, IdA32>>
RootUrls == {"https://www.notion.so/Root-1a2b3c4d5e6f78901a2b3c4d5e6f7890",
             "1A2B3C4D-5E6F-7890-1A2B-3C4D5E6F7890"}
NoHttp == [ok |-> FALSE, html |-> ""]

\* _normalize_page_id of every identifier and root of the model, computed once
NormalizedId == [s \in RawIds \cup RootUrls |-> NormalizePageId(s, NoHttp)]

\* the page a request for identifier id is answered for (the service accepts both spellings)
Canon(id) == NormalizedId[id].id

\* properties.title of each remote page
PageTitles == [p \in CanonPages |->
                 CASE p = IdR -> "Root" [] p = IdA -> "My Notes" [] p = IdB -> "my-notes"]

\* the title of the page block stored under identifier id
TitleOf(id) == PageTitles[Canon(id)]

\* _slugify of every title of the model, computed once
SlugOf == [p \in CanonPages |-> Slugify(PageTitles[p])]

\* what the record map of a page holds of another page: the page block of a direct
\* child ("child"), the page block of a page that is no direct child, an ancestor
\* or a grandchild ("nested"), a link_to_page block ("link"), a member of its
\* collection view ("member"), a mention in its text ("mention")
EdgeKinds == {"child", "member", "mention", "nested", "link"}
Edges == [src : CanonPages, kind : {"child", "member", "mention"}, dst : RawIds]
           \cup [src : CanonPages, kind : {"nested", "link"}, dst : CanonPages]

MaxEdges == 2

RECURSIVE UpTo(_, _)
\* the subsets of S with at most k elements
UpTo(S, k) ==
    IF k = 0 THEN {{}}
    ELSE LET smaller == UpTo(S, k - 1)
         IN  smaller \cup {T \cup {e} : T \in smaller, e \in S}

SkipChoices == {{}, {"my-notes"}}

\* the pages the export can come to fetch in graph g: the root, and what child and
\* member edges lead to from there (three pages: two rounds close the set)
Successors(g, ps) ==
    ps \cup {NormalizedId[e.dst].id :
                e \in {x \in g : x.src \in ps /\ x.kind \notin {"mention", "link"}}}
Reachable(g) == Successors(g, Successors(g, {IdR}))

\* the graphs of at most MaxEdges edges; an edge out of a page the export never
\* fetches changes no run, so only graphs without such edges are enumerated
Graphs == {g \in UpTo(Edges, MaxEdges) : \A e \in g : e.src \in Reachable(g)}

RECURSIVE SelectSeqIds(_, _, _)
\* the destinations of the edges of kind k out of page p, in RawOrder
SelectSeqIds(p, k, order) ==
    IF order = <<>> THEN <<>>
    ELSE (IF [src |-> p, kind |-> k, dst |-> Head(order)] \in remote
          THEN <<Head(order)>> ELSE <<>>) \o SelectSeqIds(p, k, Tail(order))

PageBlock(id) == [id |-> id, type |-> "page", page_id |-> ""]
CollectionBlock(p) == [id |-> "collection-of-" \o p, type |-> "collection_view", page_id |-> ""]
\* a link_to_page block of page p: format.page_id is its target
LinkBlock(p, target) ==
    [id |-> "link-of-" \o p \o "-to-" \o target, type |-> "link_to_page", page_id |-> target]

RECURSIVE MapLinkBlocks(_, _)
MapLinkBlocks(p, ids) ==
    IF ids = <<>> THEN <<>> ELSE <<LinkBlock(p, Head(ids))>> \o MapLinkBlocks(p, Tail(ids))

RECURSIVE MapPageBlocks(_)
MapPageBlocks(ids) ==
    IF ids = <<>> THEN <<>> ELSE <<PageBlock(Head(ids))>> \o MapPageBlocks(Tail(ids))

\* what fetch_record_map returns for page_id, as blocks.items() lists it: the page's
\* own block, its link_to_page blocks, the page blocks of its record map, then its
\* collection view
RecordMap(page_id) ==
    LET p == Canon(page_id)
    IN  <<PageBlock(p)>> \o MapLinkBlocks(p, SelectSeqIds(p, "link", RawOrder))
          \o MapPageBlocks(SelectSeqIds(p, "child", RawOrder))
          \o MapPageBlocks(SelectSeqIds(p, "nested", RawOrder))
          \o (IF SelectSeqIds(p, "member", RawOrder) # <<>>
              THEN <<CollectionBlock(p)>> ELSE <<>>)

\* blocks.get(page_id): whether the record map holds a block under that very key
HasBlock(record_map, page_id) == \E i \in 1..Len(record_map) : record_map[i].id = page_id

\* query_collection when the query succeeds: group_results.get("blockIds", [])
CollectionMembers(p) == SelectSeqIds(Canon(p), "member", RawOrder)

\* the page mentions in the rich text of the page, in rendering order
Mentions(page_id) == SelectSeqIds(Canon(page_id), "mention", RawOrder)

Frame(page_id, parent_dir) ==
    [page_id |-> page_id, parent_dir |-> parent_dir, page_dir |-> <<>>,
     pc |-> "enter", todo |-> <<>>, sub |-> <<>>]

Top == stack[Len(stack)]
Pop == SubSeq(stack, 1, Len(stack) - 1)
SetTop(f) == [stack EXCEPT ![Len(stack)] = f]
Returned(st) == IF st = <<>> THEN "done" ELSE "running"

ZeroCount == [id \in RawIds |-> 0]

InitExport ==
    /\ status = "init"
    /\ root_url \in RootUrls
    /\ remote \in Graphs
    /\ skip_titles \in SkipChoices
    /\ seen_pages = {}
    /\ page_title_cache = <<>>
    /\ stack = <<>>
    /\ calls = ZeroCount
    /\ bodies = ZeroCount
    /\ writes = ZeroCount
    /\ title_fetches = ZeroCount
    /\ files = <<>>
    /\ queries = <<>>
    /\ failed_fetches = {}

\* export_tree: normalise the root and call _export_page(root_id, output_dir)
ExportTree ==
    /\ status = "init"
    /\ LET root == NormalizedId[root_url]
       IN  IF root.ok
           THEN status' = "running" /\ stack' = <<Frame(root.id, <<>>)>>
           ELSE status' = "crashed" /\ stack' = <<>>
    /\ UNCHANGED <<notExport, failed_fetches, queries, root_url, remote, skip_titles, seen_pages, page_title_cache,
                   calls, bodies, writes, title_fetches, files>>

\* the visited set left as it was: the identifier is never recorded
MarkSeen_Forgets(seen, page_id) == seen

\* seen_pages.add(page_id)
MarkSeen(seen, page_id) == seen \cup {page_id}

\* _export_page, lines 689-690: the identifier was visited, return
EnterSeen ==
    /\ status = "running" /\ stack # <<>> /\ Top.pc = "enter"
    /\ Top.page_id \in seen_pages
    /\ calls' = [calls EXCEPT ![Top.page_id] = @ + 1]
    /\ stack' = Pop
    /\ status' = Returned(Pop)
    /\ UNCHANGED <<notExport, failed_fetches, queries, root_url, remote, skip_titles, seen_pages, page_title_cache,
                   bodies, writes, title_fetches, files>>

\* _export_page, line 691: the body starts
EnterNew ==
    /\ status = "running" /\ stack # <<>> /\ Top.pc = "enter"
    /\ Top.page_id \notin seen_pages
    /\ seen_pages' = MarkSeen(seen_pages, Top.page_id)
    /\ bodies' = [bodies EXCEPT ![Top.page_id] = @ + 1]
    /\ stack' = SetTop([Top EXCEPT !.pc = "fetch"])
    /\ calls' = [calls EXCEPT ![Top.page_id] = @ + 1]
    /\ UNCHANGED <<notExport, failed_fetches, queries, status, root_url, remote, skip_titles, page_title_cache,
                   writes, title_fetches, files>>

\* fetch_record_map raises RuntimeError (both endpoints failed); nothing catches it
FetchFails ==
    /\ status = "running" /\ stack # <<>> /\ Top.pc = "fetch"
    /\ status' = "crashed"
    /\ stack' = <<>>
    /\ failed_fetches' = failed_fetches \cup {Top.page_id}
    /\ UNCHANGED <<notExport, queries, root_url, remote, skip_titles, seen_pages, page_title_cache,
                   calls, bodies, writes, title_fetches, files>>

\* _export_page, lines 697-700: no block under page_id in the record map
FetchNoPageBlock ==
    /\ status = "running" /\ stack # <<>> /\ Top.pc = "fetch"
    /\ ~HasBlock(RecordMap(Top.page_id), Top.page_id)
    /\ stack' = Pop
    /\ status' = Returned(Pop)
    /\ UNCHANGED <<notExport, failed_fetches, queries, root_url, remote, skip_titles, seen_pages, page_title_cache,
                   calls, bodies, writes, title_fetches, files>>

\* _export_page, lines 707-708: the title is in skip_titles
FetchSkipTitle ==
    /\ status = "running" /\ stack # <<>> /\ Top.pc = "fetch"
    /\ HasBlock(RecordMap(Top.page_id), Top.page_id)
    /\ TitleOf(Top.page_id) \in skip_titles
    /\ stack' = Pop
    /\ status' = Returned(Pop)
    /\ UNCHANGED <<notExport, failed_fetches, queries, root_url, remote, skip_titles, seen_pages, page_title_cache,
                   calls, bodies, writes, title_fetches, files>>

RECURSIVE GetPageTitles(_, _)
\* _get_page_title for every mention rendered, in order: st = [cache, fetched];
\* a title is fetched with the normalised identifier and cached under the given one
GetPageTitles(ms, st) ==
    IF ms = <<>> THEN st
    ELSE LET m == Head(ms)
         IN  IF m \in DOMAIN st.cache THEN GetPageTitles(Tail(ms), st)
             ELSE GetPageTitles(Tail(ms),
                    [cache |-> st.cache @@ (m :> TitleOf(Canon(m))),
                     fetched |-> [st.fetched EXCEPT ![m] = @ + 1]])

\* _export_page, lines 702-737: cache the title, write index.md (rendering the page
\* resolves the titles of its mentions), then start the loop over blocks.items()
FetchWrite ==
    /\ status = "running" /\ stack # <<>> /\ Top.pc = "fetch"
    /\ HasBlock(RecordMap(Top.page_id), Top.page_id)
    /\ TitleOf(Top.page_id) \notin skip_titles
    /\ LET page_id == Top.page_id
           page_title == TitleOf(page_id)
           page_dir == Append(Top.parent_dir, SlugOf[Canon(page_id)])
           cached == [k \in DOMAIN page_title_cache \cup {page_id} |->
                        IF k = page_id THEN page_title ELSE page_title_cache[k]]
           after == GetPageTitles(Mentions(page_id),
                                  [cache |-> cached, fetched |-> title_fetches])
       IN  /\ page_title_cache' = after.cache
           /\ title_fetches' = after.fetched
           /\ files' = [d \in DOMAIN files \cup {page_dir} |->
                          IF d = page_dir THEN page_id ELSE files[d]]
           /\ writes' = [writes EXCEPT ![page_id] = @ + 1]
           /\ stack' = SetTop([Top EXCEPT !.pc = "loop", !.page_dir = page_dir,
                                          !.todo = RecordMap(page_id)])
    /\ UNCHANGED <<notExport, failed_fetches, queries, status, root_url, remote, skip_titles, seen_pages, calls, bodies>>

\* the loop of lines 743-750 meets the page's own block: continue
LoopOwnBlock ==
    /\ status = "running" /\ stack # <<>> /\ Top.pc = "loop"
    /\ Top.sub = <<>> /\ Top.todo # <<>>
    /\ Head(Top.todo).id = Top.page_id
    /\ stack' = SetTop([Top EXCEPT !.todo = Tail(@)])
    /\ UNCHANGED <<notExport, failed_fetches, queries, status, root_url, remote, skip_titles, seen_pages, page_title_cache,
                   calls, bodies, writes, title_fetches, files>>

\* a loop that takes the target of a link_to_page block for a page to export
Recursed_FollowsLinks(bval) ==
    IF bval.type \in {"child_page", "page"} THEN <<bval.id>>
    ELSE IF bval.type = "link_to_page" THEN <<bval.page_id>>
    ELSE <<>>

\* lines 752-757: the page the loop exports for a block, <<>> when it exports none
Recursed(bval) == IF bval.type \in {"child_page", "page"} THEN <<bval.id>> ELSE <<>>

\* lines 753-754: a page block of the record map: _export_page(bval["id"], page_dir)
LoopPageBlock ==
    /\ status = "running" /\ stack # <<>> /\ Top.pc = "loop"
    /\ Top.sub = <<>> /\ Top.todo # <<>>
    /\ Head(Top.todo).id # Top.page_id
    /\ Recursed(Head(Top.todo)) # <<>>
    /\ stack' = Append(SetTop([Top EXCEPT !.todo = Tail(@)]),
                       Frame(Head(Recursed(Head(Top.todo))), Top.page_dir))
    /\ UNCHANGED <<notExport, failed_fetches, queries, status, root_url, remote, skip_titles, seen_pages, page_title_cache,
                   calls, bodies, writes, title_fetches, files>>

\* what the service or the network answers to queryCollection: the members, a
\* status other than 200, no answer at all (session.post raises ConnectionError or
\* Timeout), a body that is no JSON, a JSON object without "result", and a JSON
\* object whose "result" is null
QueryResponses == {"members", "status 500", "no answer", "not json", "no result", "null result"}

\* a query_collection that takes every failure for an empty collection
QueryCollection_CatchesAll(response, members) ==
    IF response = "members" THEN [raised |-> FALSE, ids |-> members]
    ELSE [raised |-> FALSE, ids |-> <<>>]

\* query_collection, lines 148-158: _api_post raises RuntimeError for a status other
\* than 200 and that alone is caught; the exceptions of session.post and resp.json()
\* are no RuntimeError, and None has no get
QueryCollection(response, members) ==
    CASE response = "members" -> [raised |-> FALSE, ids |-> members]
      [] response = "status 500" -> [raised |-> FALSE, ids |-> <<>>]
      [] response = "no result" -> [raised |-> FALSE, ids |-> <<>>]
      [] response \in {"no answer", "not json", "null result"} -> [raised |-> TRUE, ids |-> <<>>]

\* lines 761-769: a collection view: query its first view; an exception that
\* query_collection lets through ends the run, nothing catches it
LoopCollection ==
    /\ status = "running" /\ stack # <<>> /\ Top.pc = "loop"
    /\ Top.sub = <<>> /\ Top.todo # <<>>
    /\ Head(Top.todo).id # Top.page_id
    /\ Head(Top.todo).type = "collection_view"
    /\ \E response \in QueryResponses :
         LET answer == QueryCollection(response, CollectionMembers(Top.page_id))
         IN  /\ queries' = Append(queries, [page_id |-> Top.page_id, response |-> response,
                                            raised |-> answer.raised, ids |-> answer.ids])
             /\ IF answer.raised
                THEN status' = "crashed" /\ stack' = <<>>
                ELSE /\ status' = status
                     /\ stack' = SetTop([Top EXCEPT !.todo = Tail(@), !.sub = answer.ids])
    /\ UNCHANGED <<notExport, failed_fetches, root_url, remote, skip_titles, seen_pages, page_title_cache,
                   calls, bodies, writes, title_fetches, files>>

\* lines 756-761: a block that is no page and no collection view, a link_to_page
\* block among them: nothing is exported for it
LoopOtherBlock ==
    /\ status = "running" /\ stack # <<>> /\ Top.pc = "loop"
    /\ Top.sub = <<>> /\ Top.todo # <<>>
    /\ Head(Top.todo).id # Top.page_id
    /\ Recursed(Head(Top.todo)) = <<>>
    /\ Head(Top.todo).type # "collection_view"
    /\ stack' = SetTop([Top EXCEPT !.todo = Tail(@)])
    /\ UNCHANGED <<notExport, failed_fetches, queries, status, root_url, remote, skip_titles, seen_pages, page_title_cache,
                   calls, bodies, writes, title_fetches, files>>

\* lines 770-772: the next member: _export_page(sub_page_id, output_dir)
LoopMember ==
    /\ status = "running" /\ stack # <<>> /\ Top.pc = "loop"
    /\ Top.sub # <<>>
    /\ stack' = Append(SetTop([Top EXCEPT !.sub = Tail(@)]), Frame(Head(Top.sub), <<>>))
    /\ UNCHANGED <<notExport, failed_fetches, queries, status, root_url, remote, skip_titles, seen_pages, page_title_cache,
                   calls, bodies, writes, title_fetches, files>>

\* the loop is over: _export_page returns
LoopEnd ==
    /\ status = "running" /\ stack # <<>> /\ Top.pc = "loop"
    /\ Top.sub = <<>> /\ Top.todo = <<>>
    /\ stack' = Pop
    /\ status' = Returned(Pop)
    /\ UNCHANGED <<notExport, failed_fetches, queries, root_url, remote, skip_titles, seen_pages, page_title_cache,
                   calls, bodies, writes, title_fetches, files>>

NextExport ==
    \/ ExportTree
    \/ EnterSeen
    \/ EnterNew
    \/ FetchFails
    \/ FetchNoPageBlock
    \/ FetchSkipTitle
    \/ FetchWrite
    \/ LoopOwnBlock
    \/ LoopPageBlock
    \/ LoopCollection
    \/ LoopOtherBlock
    \/ LoopMember
    \/ LoopEnd

Init == InitExport /\ IdleExcept("export")

Spec == Init /\ [][NextExport]_vars

\* the scheduling of the export: one thread runs it to the end, so a step that can
\* be taken is taken
FairSpec == Spec /\ WF_vars(NextExport)

---------------------------------------------------------------------------
(* Claims about the export pipeline *)

\* the distinct page identifiers of the remote graph: the root, the identifiers of the
\* page blocks and collection members, and the identifier each of these pages has in
\* its own record map
GraphIds ==
    LET named == {e.dst : e \in {x \in remote : x.kind \notin {"mention", "link"}}}
    IN  {NormalizedId[root_url].id} \cup named \cup {Canon(id) : id \in named}

RECURSIVE SumOver(_, _)
SumOver(f, S) ==
    IF S = {} THEN 0 ELSE LET x == CHOOSE y \in S : TRUE IN f[x] + SumOver(f, S \ {x})

C1_Step ==
    /\ seen_pages \subseteq seen_pages'
    /\ \A id \in RawIds : bodies'[id] <= 1 /\ writes'[id] <= 1
    /\ (status = "running" /\ stack # <<>> /\ Top.pc = "enter" /\ Top.page_id \in seen_pages)
         => /\ stack' = Pop
            /\ <<bodies, writes, title_fetches, files, page_title_cache>>'
                 = <<bodies, writes, title_fetches, files, page_title_cache>>

\* C1: in one export run every identifier passes the visited check at most once and is
\* written at most once; a call of _export_page with a visited identifier returns with
\* no fetch and no write; and seen_pages only grows.
C1_ExportedAtMostOnce == [][C1_Step]_vars

\* a finished run in which a page was both a child page and a collection member: it
\* was called twice and written once
C1_Witness ==
    /\ status = "done"
    /\ \E id \in RawIds, p, q \in CanonPages :
          /\ [src |-> p, kind |-> "child", dst |-> id] \in remote
          /\ [src |-> q, kind |-> "member", dst |-> id] \in remote
          /\ calls[id] >= 2 /\ bodies[id] = 1 /\ writes[id] = 1

\* C5: export_tree ends on every remote graph, cyclic ones included, and the bodies of
\* _export_page executed never outnumber the distinct identifiers of the graph.
C5_Terminates ==
    /\ [](SumOver(bodies, RawIds) <= Cardinality(GraphIds))
    /\ <>(status \in {"done", "crashed"})

\* a finished run over a cycle: the root has child page A, and A's record map holds
\* the root
C5_Witness ==
    /\ status = "done"
    /\ [src |-> IdR, kind |-> "child", dst |-> IdA] \in remote
    /\ [src |-> IdA, kind |-> "child", dst |-> IdR] \in remote
    /\ calls[IdR] = 2 /\ bodies[IdR] = 1 /\ bodies[IdA] = 1

\* C7: two spellings of one page identifier are one page to the visited set and to the
\* title cache: the page's body runs once and it has one title entry.
C7_OnePagePerSpellings ==
    /\ \A a, b \in seen_pages : Canon(a) = Canon(b) => a = b
    /\ \A a, b \in DOMAIN page_title_cache : Canon(a) = Canon(b) => a = b
    /\ \A p \in CanonPages : SumOver(bodies, {id \in RawIds : Canon(id) = p}) <= 1

---------------------------------------------------------------------------
(* fetch_record_map: the paginated fetch of one page's record map *)

MaxChunks == 3

BlockIds == {"b1", "b2"}
BlockValues == {"v1", "v2"}

\* the block mappings a chunk can carry: recordMap.block, {} when absent or empty
BlockMaps == UNION {[ks -> BlockValues] : ks \in SUBSET BlockIds}

\* the cursors a chunk can carry; present is FALSE for a missing or empty cursor
\* object, and stack is <<>> for a missing or empty "stack"
Cursors == {[present |-> FALSE, stack |-> <<>>]}
             \cup {[present |-> TRUE, stack |-> st] : st \in {<<>>, <<1>>, <<2>>}}

Chunks == [blocks : BlockMaps, cursor : Cursors]

\* cursor = {"stack": []}
FirstCursor == [present |-> TRUE, stack |-> <<>>]

\* dict.update: the entries of blocks replace those of merged
Update(merged, blocks) ==
    [k \in DOMAIN merged \cup DOMAIN blocks |->
        IF k \in DOMAIN blocks THEN blocks[k] ELSE merged[k]]

\* the stop test placed before the merge: the last chunk's blocks are lost
AfterChunk_StopsBeforeMerge(st, data) ==
    IF \/ DOMAIN data.blocks = {}
       \/ ~data.cursor.present \/ data.cursor = st.cursor \/ data.cursor.stack = <<>>
    THEN [st EXCEPT !.pc = "done"]
    ELSE [pc |-> "request", cursor |-> data.cursor, chunk_number |-> st.chunk_number + 1,
          merged_blocks |-> Update(st.merged_blocks, data.blocks)]

\* the loop goes on when the cursor comes back unchanged
AfterChunk_IgnoresRepeat(st, data) ==
    IF DOMAIN data.blocks = {} THEN [st EXCEPT !.pc = "done"]
    ELSE IF ~data.cursor.present \/ data.cursor.stack = <<>>
    THEN [st EXCEPT !.pc = "done", !.merged_blocks = Update(@, data.blocks)]
    ELSE [pc |-> "request", cursor |-> data.cursor, chunk_number |-> st.chunk_number + 1,
          merged_blocks |-> Update(st.merged_blocks, data.blocks)]

\* fetch_record_map, lines 184-197: the loop body after data arrived, on the state
\* st = [pc, cursor, chunk_number, merged_blocks]
AfterChunk(st, data) ==
    IF DOMAIN data.blocks = {} THEN [st EXCEPT !.pc = "done"]
    ELSE IF ~data.cursor.present \/ data.cursor = st.cursor \/ data.cursor.stack = <<>>
    THEN [st EXCEPT !.pc = "done", !.merged_blocks = Update(@, data.blocks)]
    ELSE [pc |-> "request", cursor |-> data.cursor, chunk_number |-> st.chunk_number + 1,
          merged_blocks |-> Update(st.merged_blocks, data.blocks)]

FetchState == [pc |-> f_pc, cursor |-> cursor, chunk_number |-> chunk_number,
               merged_blocks |-> merged_blocks]

SetFetchState(st) ==
    /\ f_pc' = st.pc
    /\ cursor' = st.cursor
    /\ chunk_number' = st.chunk_number
    /\ merged_blocks' = st.merged_blocks

Payload(endpoint) == [endpoint |-> endpoint, cursor |-> cursor, chunkNumber |-> chunk_number]

\* a chunk after which the service has nothing more: no blocks, the cursor that was
\* sent, or a cursor with no stack
LastChunk(data, sent) ==
    DOMAIN data.blocks = {} \/ data.cursor = sent \/ data.cursor.stack = <<>>

\* the chunks the service can answer the next request with: a page has at most
\* MaxChunks chunks, so the MaxChunks-th is a last one
Answers == {data \in Chunks : chunk_number + 1 < MaxChunks \/ LastChunk(data, cursor)}

Received(data) == [blocks |-> data.blocks, cursor |-> data.cursor, sent |-> cursor,
                   request |-> Len(requests) + 1]

InitFetch ==
    /\ f_pc = "request"
    /\ cursor = FirstCursor
    /\ chunk_number = 0
    /\ merged_blocks = <<>>
    /\ requests = <<>>
    /\ responses = <<>>
    /\ delays = <<>>

\* _api_post, lines 95-99: a status other than 200 raises before time.sleep
Slept(status_code) == status_code = 200

\* _api_post("loadPageChunk", payload) returns data
LoadPageChunk ==
    /\ f_pc = "request"
    /\ delays' = Append(delays, Slept(200))
    /\ \E data \in Answers :
          /\ requests' = Append(requests, Payload("loadPageChunk"))
          /\ responses' = Append(responses, Received(data))
          /\ SetFetchState(AfterChunk(FetchState, data))
    /\ UNCHANGED notFetch

\* _api_post("loadPageChunk", payload) raises RuntimeError
LoadPageChunkFails ==
    /\ f_pc = "request"
    /\ \E status_code \in {403, 500} : delays' = Append(delays, Slept(status_code))
    /\ requests' = Append(requests, Payload("loadPageChunk"))
    /\ f_pc' = "fallback"
    /\ UNCHANGED <<notFetch, cursor, chunk_number, merged_blocks, responses>>

\* the fallback _api_post("loadCachedPageChunk", payload) returns data
LoadCachedPageChunk ==
    /\ f_pc = "fallback"
    /\ delays' = Append(delays, Slept(200))
    /\ \E data \in Answers :
          /\ requests' = Append(requests, Payload("loadCachedPageChunk"))
          /\ responses' = Append(responses, Received(data))
          /\ SetFetchState(AfterChunk([FetchState EXCEPT !.pc = "request"], data))
    /\ UNCHANGED notFetch

\* the fallback raises too: fetch_record_map raises RuntimeError
LoadCachedPageChunkFails ==
    /\ f_pc = "fallback"
    /\ \E status_code \in {403, 500} : delays' = Append(delays, Slept(status_code))
    /\ requests' = Append(requests, Payload("loadCachedPageChunk"))
    /\ f_pc' = "raised"
    /\ UNCHANGED <<notFetch, cursor, chunk_number, merged_blocks, responses>>

NextFetch ==
    \/ LoadPageChunk
    \/ LoadPageChunkFails
    \/ LoadCachedPageChunk
    \/ LoadCachedPageChunkFails

FetchInit == InitFetch /\ IdleExcept("fetch")

FetchSpec == FetchInit /\ [][NextFetch]_vars

\* one thread runs the loop: a request that can be posted is posted
FairFetchSpec == FetchSpec /\ WF_vars(NextFetch)

---------------------------------------------------------------------------
(* Claims about fetch_record_map *)

\* the block identifiers of all the chunks received
ReceivedIds == UNION {DOMAIN responses[i].blocks : i \in 1..Len(responses)}

\* the first chunk received that holds identifier id
FirstWith(id) ==
    CHOOSE i \in 1..Len(responses) :
        /\ id \in DOMAIN responses[i].blocks
        /\ \A j \in 1..(i - 1) : id \notin DOMAIN responses[j].blocks

\* C2: when fetch_record_map returns, the identifiers of the mapping are exactly the
\* identifiers of all chunks received, those of the last chunk included.
C2_MergedIsUnion == f_pc = "done" => DOMAIN merged_blocks = ReceivedIds

\* the fetch ended on a repeated cursor, after two chunks or more, and the last chunk
\* brought an identifier no earlier chunk held
C2_Witness ==
    /\ f_pc = "done" /\ Len(responses) >= 2
    /\ LET last == responses[Len(responses)]
       IN  /\ last.cursor = last.sent /\ last.cursor.stack # <<>>
           /\ \E id \in DOMAIN last.blocks :
                 \A j \in 1..(Len(responses) - 1) : id \notin DOMAIN responses[j].blocks

\* C3: the merge never overwrites: the value of every identifier of the result is the
\* value in the first chunk that held the identifier.
C3_FirstChunkWins ==
    f_pc = "done" =>
        \A id \in DOMAIN merged_blocks : merged_blocks[id] = responses[FirstWith(id)].blocks[id]

C4_NoRequestAfterLast ==
    \A i \in 1..Len(responses) :
        LastChunk(responses[i], responses[i].sent) =>
            /\ i = Len(responses)
            /\ Len(requests) = responses[i].request
            /\ f_pc = "done"

C4_ChunkNumbers ==
    /\ requests # <<>> => requests[1].chunkNumber = 0 /\ requests[1].cursor = FirstCursor
    /\ \A k \in 1..(Len(requests) - 1) :
          IF requests[k + 1].cursor # requests[k].cursor
          THEN requests[k + 1].chunkNumber = requests[k].chunkNumber + 1
          ELSE /\ requests[k + 1].chunkNumber = requests[k].chunkNumber
               /\ requests[k].endpoint = "loadPageChunk"
               /\ requests[k + 1].endpoint = "loadCachedPageChunk"

\* C4: no request follows the first chunk that has no blocks, repeats the cursor sent
\* or has an empty cursor stack; the fetch ends once such a chunk arrives; and the
\* chunk number grows by one with every request that carries a new cursor.
C4_StopsAndCounts ==
    /\ [](C4_NoRequestAfterLast /\ C4_ChunkNumbers)
    /\ <>(f_pc \in {"done", "raised"})

\* a fetch of three requests with three cursors that ended on a repeated cursor
C4_Witness ==
    /\ f_pc = "done" /\ Len(responses) = 3 /\ Len(requests) = 3
    /\ requests[3].chunkNumber = 2
    /\ responses[3].cursor = responses[3].sent /\ responses[3].cursor.stack # <<>>
    /\ DOMAIN responses[3].blocks # {}

---------------------------------------------------------------------------
(* The two normalisers on spellings of one identifier *)

\* the spellings of a page identifier
Raw32 == "1a2b3c4d5e6f78901a2b3c4d5e6f7890"
Raw32Upper == "1A2B3C4D5E6F78901A2B3C4D5E6F7890"
Hyphenated == "1a2b3c4d-5e6f-7890-1a2b-3c4d5e6f7890"
HyphenatedUpper == "1A2B3C4D-5E6F-7890-1A2B-3C4D5E6F7890"
HyphenatedMixed == "1a2B3c4D-5E6f-7890-1A2b-3C4d5e6F7890"
OtherRaw32 == "0f0f0f0f000011112222333333333333"
Spellings == {Raw32, Raw32Upper, Hyphenated, HyphenatedUpper, HyphenatedMixed}

\* the URLs that embed a spelling
UrlPrefixes == {"https://www.notion.so/", "https://www.notion.so/My-Page-",
                "https://team.notion.site/ws/Deed-", "http://notion.so/",
                "https://www.notion.so/ws?p="}
UrlSuffixes == {"", "?pvs=4", "?v=" \o OtherRaw32, "/", "#" \o OtherRaw32}
EmbeddingUrls == {pre \o sp \o suf : pre \in UrlPrefixes, sp \in Spellings, suf \in UrlSuffixes}

\* URLs without an identifier, and what the page behind them holds
BareUrls == {"https://team.notion.site/", "https://example.com/handbook"}
NoAnswer == [ok |-> FALSE, html |-> ""]
Pages == {[ok |-> TRUE, html |-> "<html>{\"pageId\" : \"" \o HyphenatedUpper \o "\"}</html>"],
          [ok |-> TRUE, html |-> "<a href=\"/" \o Hyphenated \o "\">"],
          [ok |-> TRUE, html |-> "<a href=\"/" \o Raw32Upper \o "\">"],
          [ok |-> TRUE, html |-> "<html></html>"],
          NoAnswer}

InitNorm ==
    /\ \/ n_in \in Spellings \cup EmbeddingUrls /\ n_http = NoAnswer
       \/ n_in \in BareUrls \cup {"my page"} /\ n_http \in Pages
    /\ n_done = {}
    /\ n_exp = ValueError
    /\ n_imp = ""
    /\ n_exp2 = ValueError
    /\ n_imp2 = ""

\* exporter: _normalize_page_id(n_in)
NormalizeExporter ==
    /\ "exp" \notin n_done
    /\ n_exp' = NormalizePageId(n_in, n_http)
    /\ n_done' = n_done \cup {"exp"}
    /\ UNCHANGED <<notNorm, n_in, n_http, n_imp, n_exp2, n_imp2>>

\* importer: _normalize_id(n_in)
NormalizeImporter ==
    /\ "imp" \notin n_done
    /\ n_imp' = NormalizeId(n_in)
    /\ n_done' = n_done \cup {"imp"}
    /\ UNCHANGED <<notNorm, n_in, n_http, n_exp, n_exp2, n_imp2>>

\* exporter: _normalize_page_id on the identifier it returned
RenormalizeExporter ==
    /\ "exp" \in n_done /\ "exp2" \notin n_done /\ n_exp.ok
    /\ n_exp2' = NormalizePageId(n_exp.id, NoAnswer)
    /\ n_done' = n_done \cup {"exp2"}
    /\ UNCHANGED <<notNorm, n_in, n_http, n_exp, n_imp, n_imp2>>

\* importer: _normalize_id on the identifier it returned
RenormalizeImporter ==
    /\ "imp" \in n_done /\ "imp2" \notin n_done
    /\ n_imp2' = NormalizeId(n_imp)
    /\ n_done' = n_done \cup {"imp2"}
    /\ UNCHANGED <<notNorm, n_in, n_http, n_exp, n_imp, n_exp2>>

NextNorm ==
    \/ NormalizeExporter
    \/ NormalizeImporter
    \/ RenormalizeExporter
    \/ RenormalizeImporter

NormInit == InitNorm /\ IdleExcept("normalize")

NormSpec == NormInit /\ [][NextNorm]_vars

\* C6: given the raw spelling, the hyphenated spelling in any letter case, or a URL
\* that embeds either, both normalisers return the lowercase hyphenated identifier,
\* and normalising that result again returns it unchanged.
C6_BothNormalize ==
    n_in \in Spellings \cup EmbeddingUrls =>
        /\ "exp" \in n_done => n_exp = Resolved(Hyphenated)
        /\ "imp" \in n_done => n_imp = Hyphenated
        /\ "exp2" \in n_done => n_exp2 = n_exp
        /\ "imp2" \in n_done => n_imp2 = n_imp

---------------------------------------------------------------------------
(* Rich text: _rich_text_to_markdown of the exporter, _rich_text of the importer *)

\* NotionPublicExporter.COLOR_MAP
COLOR_MAP ==
    [c \in {"gray", "brown", "orange", "yellow", "green", "blue", "purple", "pink", "red",
            "gray_background", "brown_background", "orange_background",
            "yellow_background", "green_background", "blue_background",
            "purple_background", "pink_background", "red_background"} |->
        CASE c = "gray" -> "#787774" [] c = "brown" -> "#9F6B53"
          [] c = "orange" -> "#D9730D" [] c = "yellow" -> "#CB912F"
          [] c = "green" -> "#448361" [] c = "blue" -> "#337EA9"
          [] c = "purple" -> "#9065B0" [] c = "pink" -> "#C14C8A"
          [] c = "red" -> "#D44C47" [] c = "gray_background" -> "#F1F1EF"
          [] c = "brown_background" -> "#F4EEEE" [] c = "orange_background" -> "#FBECDD"
          [] c = "yellow_background" -> "#FBF3DB" [] c = "green_background" -> "#EDF3EC"
          [] c = "blue_background" -> "#E7F3F8" [] c = "purple_background" -> "#F6F3F9"
          [] c = "pink_background" -> "#FAF1F5" [] c = "red_background" -> "#FDEBEC"]

\* NotionImporter.CSS_TO_NOTION_COLOR
CSS_TO_NOTION_COLOR ==
    [h \in {"#787774", "#9F6B53", "#D9730D", "#CB912F", "#448361", "#337EA9", "#9065B0",
            "#C14C8A", "#D44C47", "#F1F1EF", "#F4EEEE", "#FBECDD", "#FBF3DB", "#EDF3EC",
            "#E7F3F8", "#F6F3F9", "#FAF1F5", "#FDEBEC"} |->
        CASE h = "#787774" -> "gray" [] h = "#9F6B53" -> "brown"
          [] h = "#D9730D" -> "orange" [] h = "#CB912F" -> "yellow"
          [] h = "#448361" -> "green" [] h = "#337EA9" -> "blue"
          [] h = "#9065B0" -> "purple" [] h = "#C14C8A" -> "pink"
          [] h = "#D44C47" -> "red" [] h = "#F1F1EF" -> "gray_background"
          [] h = "#F4EEEE" -> "brown_background" [] h = "#FBECDD" -> "orange_background"
          [] h = "#FBF3DB" -> "yellow_background" [] h = "#EDF3EC" -> "green_background"
          [] h = "#E7F3F8" -> "blue_background" [] h = "#F6F3F9" -> "purple_background"
          [] h = "#FAF1F5" -> "pink_background" [] h = "#FDEBEC" -> "red_background"]

\* the backquote, which a TLA+ string cannot hold, is written ^ in the model's texts
Backquote == "^"

\* a part of a rich text is [text, annotations]; an annotation is a tuple whose first
\* element is its type: <<"b">>, <<"i">>, <<"s">>, <<"c">>, <<"_">>, <<"a", url>>,
\* <<"h", color>>
HasAnnotation(annotations, ann_type) ==
    \E k \in 1..Len(annotations) : annotations[k][1] = ann_type

\* the argument of the last annotation of that type that has one and passes keep
LastArgument(annotations, ann_type, skipped) ==
    LET hits == {k \in 1..Len(annotations) :
                    /\ annotations[k][1] = ann_type /\ Len(annotations[k]) > 1
                    /\ annotations[k][2] \notin skipped}
    IN  IF hits = {} THEN ""
        ELSE annotations[CHOOSE k \in hits : \A j \in hits : j <= k][2]

\* lines 316-321: the emphasis markers
Emphasis(text, is_bold, is_italic) ==
    IF is_bold /\ is_italic THEN "***" \o text \o "***"
    ELSE IF is_bold THEN "**" \o text \o "**"
    ELSE IF is_italic THEN "*" \o text \o "*"
    ELSE text

\* lines 309-323: the markers around a text that is not empty
ApplyFormatting(text, annotations) ==
    LET link_url == LastArgument(annotations, "a", {})
        t1 == IF HasAnnotation(annotations, "c") THEN Backquote \o text \o Backquote ELSE text
        t2 == IF HasAnnotation(annotations, "s") THEN "~~" \o t1 \o "~~" ELSE t1
        t3 == IF HasAnnotation(annotations, "_") THEN "<u>" \o t2 \o "</u>" ELSE t2
        t4 == Emphasis(t3, HasAnnotation(annotations, "b"), HasAnnotation(annotations, "i"))
    IN  IF link_url # "" THEN "[" \o t4 \o "](" \o link_url \o ")" ELSE t4

\* lines 245-337: the Markdown of one part
PartToMarkdown(part, use_html_colors) ==
    LET annotations == part[2]
        highlight_color == LastArgument(annotations, "h", {"", "default"})
        leading_space == IF part[1] # "" /\ Head(part[1]) = " " THEN " " ELSE ""
        t1 == IF leading_space = " " THEN Tail(part[1]) ELSE part[1]
        trailing_space == IF t1 # "" /\ Char(t1, Len(t1)) = " " THEN " " ELSE ""
        t2 == IF trailing_space = " " THEN Sub(t1, 1, Len(t1) - 1) ELSE t1
        text == leading_space
                  \o (IF t2 # "" THEN ApplyFormatting(t2, annotations) ELSE t2)
                  \o trailing_space
    IN  IF highlight_color # "" /\ use_html_colors /\ highlight_color \in DOMAIN COLOR_MAP
        THEN IF Contains(highlight_color, "_background")
             THEN "<span style=\"background-color: " \o COLOR_MAP[highlight_color] \o "\">"
                    \o text \o "</span>"
             ELSE "<span style=\"color: " \o COLOR_MAP[highlight_color] \o "\">"
                    \o text \o "</span>"
        ELSE text

RECURSIVE RichTextToMarkdown(_, _)
\* NotionPublicExporter._rich_text_to_markdown
RichTextToMarkdown(rich, use_html_colors) ==
    IF rich = <<>> THEN ""
    ELSE PartToMarkdown(Head(rich), use_html_colors)
           \o RichTextToMarkdown(Tail(rich), use_html_colors)

NoMatch == [ok |-> FALSE, g1 |-> "", g2 |-> "", g3 |-> ""]

\* re.match(open \s*([^"]+)">(.*?)</span>(.*)): g1 is group 1 stripped
SpanMatch(text, open) ==
    IF ~StartsWith(text, open) THEN NoMatch
    ELSE LET q == FindFrom(text, "\"", Len(open) + 1)
         IN  IF q = 0 \/ q = Len(open) + 1 \/ Sub(text, q, q + 1) # "\">" THEN NoMatch
             ELSE LET e == FindFrom(text, "</span>", q + 2)
                  IN  IF e = 0 THEN NoMatch
                      ELSE [ok |-> TRUE, g1 |-> Strip(Sub(text, Len(open) + 1, q - 1)),
                            g2 |-> Sub(text, q + 2, e - 1), g3 |-> From(text, e + 7)]

\* re.match(open (.+?) close (.*)) with a lazy group of at least 'least' characters:
\* g1 is the group, g2 the rest
DelimMatch(text, open, close, least) ==
    IF ~StartsWith(text, open) THEN NoMatch
    ELSE LET e == FindFrom(text, close, Len(open) + 1 + least)
         IN  IF e = 0 THEN NoMatch
             ELSE [ok |-> TRUE, g1 |-> Sub(text, Len(open) + 1, e - 1),
                   g2 |-> From(text, e + Len(close)), g3 |-> ""]

\* re.match(`([^`]+)`(.*))
CodeMatch(text) ==
    IF ~StartsWith(text, Backquote) THEN NoMatch
    ELSE LET e == FindFrom(text, Backquote, 2)
         IN  IF e = 0 \/ e = 2 THEN NoMatch
             ELSE [ok |-> TRUE, g1 |-> Sub(text, 2, e - 1), g2 |-> From(text, e + 1),
                   g3 |-> ""]

\* re.match(\[([^\]]+)\]\(([^)]+)\)(.*))
LinkMatch(text) ==
    IF ~StartsWith(text, "[") THEN NoMatch
    ELSE LET b == FindFrom(text, "]", 2)
         IN  IF b = 0 \/ b = 2 \/ Char(text, b + 1) # "(" THEN NoMatch
             ELSE LET p == FindFrom(text, ")", b + 2)
                  IN  IF p = 0 \/ p = b + 2 THEN NoMatch
                      ELSE [ok |-> TRUE, g1 |-> Sub(text, 2, b - 1),
                            g2 |-> Sub(text, b + 2, p - 1), g3 |-> From(text, p + 1)]

\* lines 442-447: the position of the first special character, Len(text) + 1 if none
NextSpecial(text) ==
    LET hits == {k \in 1..Len(text) : Char(text, k) \in {"<", "*", "~", Backquote, "["}}
    IN  IF hits = {} THEN Len(text) + 1 ELSE CHOOSE k \in hits : \A j \in hits : k <= j

\* a segment of the importer: its content, its annotations (a mapping from the names
\* bold, italic, strikethrough, underline, code to TRUE and from color to a color
\* name; empty when the segment has no "annotations" key) and its link ("" if none)
Segment(content, annotations) ==
    [content |-> content, annotations |-> annotations, link |-> ""]

\* {**annotations, key: value}
With(annotations, key, value) == (key :> value) @@ annotations

\* lines 433-436: the link put on each segment of the link text
LinkSegments(link_segments, link_url) ==
    [k \in 1..Len(link_segments) |->
        IF StartsWith(link_url, "http") THEN [link_segments[k] EXCEPT !.link = link_url]
        ELSE link_segments[k]]

RECURSIVE ParseRichTextRecursive(_, _)
\* NotionImporter._parse_rich_text_recursive: the segments appended
ParseRichTextRecursive(text, annotations) ==
    LET color_match == SpanMatch(text, "<span style=\"color:")
        bg_match == SpanMatch(text, "<span style=\"background-color:")
        underline_match == DelimMatch(text, "<u>", "</u>", 0)
        bold_italic_match == DelimMatch(text, "***", "***", 1)
        bold_match == DelimMatch(text, "**", "**", 1)
        italic_match == DelimMatch(text, "*", "*", 1)
        strike_match == DelimMatch(text, "~~", "~~", 1)
        code_match == CodeMatch(text)
        link_match == LinkMatch(text)
        next_special == NextSpecial(text)
        Color(css) == IF css \in DOMAIN CSS_TO_NOTION_COLOR
                      THEN CSS_TO_NOTION_COLOR[css] ELSE "default"
        Nested(m, new_annotations) ==
            ParseRichTextRecursive(m.g1, new_annotations)
              \o ParseRichTextRecursive(m.g2, annotations)
    IN  IF text = "" THEN <<>>
        ELSE IF color_match.ok
        THEN ParseRichTextRecursive(color_match.g2,
                                    With(annotations, "color", Color(color_match.g1)))
               \o ParseRichTextRecursive(color_match.g3, annotations)
        ELSE IF bg_match.ok
        THEN ParseRichTextRecursive(bg_match.g2,
                                    With(annotations, "color", Color(bg_match.g1)))
               \o ParseRichTextRecursive(bg_match.g3, annotations)
        ELSE IF underline_match.ok
        THEN Nested(underline_match, With(annotations, "underline", TRUE))
        ELSE IF bold_italic_match.ok
        THEN Nested(bold_italic_match, With(With(annotations, "bold", TRUE), "italic", TRUE))
        ELSE IF bold_match.ok THEN Nested(bold_match, With(annotations, "bold", TRUE))
        ELSE IF italic_match.ok THEN Nested(italic_match, With(annotations, "italic", TRUE))
        ELSE IF strike_match.ok
        THEN Nested(strike_match, With(annotations, "strikethrough", TRUE))
        ELSE IF code_match.ok THEN Nested(code_match, With(annotations, "code", TRUE))
        ELSE IF link_match.ok
        THEN LinkSegments(ParseRichTextRecursive(link_match.g1, annotations), link_match.g2)
               \o ParseRichTextRecursive(link_match.g3, annotations)
        ELSE IF next_special > 1
        THEN <<Segment(Sub(text, 1, next_special - 1), annotations)>>
               \o ParseRichTextRecursive(From(text, next_special), annotations)
        ELSE <<Segment(Char(text, 1), annotations)>>
               \o ParseRichTextRecursive(From(text, 2), annotations)

\* NotionImporter._rich_text
RichText(text) ==
    IF text = "" THEN <<>>
    ELSE LET segments == ParseRichTextRecursive(text, <<>>)
         IN  IF segments # <<>> THEN segments ELSE <<Segment(text, <<>>)>>

\* the spans of the model: a text and annotations of the exporter's kinds
Texts == {"x", "ab", "a b", "a_b.", " x", "x ", " x ", " ", "  ",
          "a*b", "*a*", "a^b", "a<b", "~~a~~", "[a](http://b)"}
Formats == SUBSET {"b", "i", "s", "c", "_"}
FormatOrder == <<"b", "i", "s", "c", "_">>
Highlights == DOMAIN COLOR_MAP \cup {"", "default"}

\* the annotation list of a span with these formats and this color ("" for none)
AnnotationList(formats, color) ==
    LET picked == SelectSeq(FormatOrder, LAMBDA a : a \in formats)
    IN  [k \in 1..Len(picked) |-> <<picked[k]>>]
          \o (IF color = "" THEN <<>> ELSE << <<"h", color>> >>)

InitRichText ==
    /\ rt_pc = "span"
    /\ \E text \in Texts, formats \in Formats, color \in Highlights :
          rt_rich = << <<text, AnnotationList(formats, color)>> >>
    /\ rt_markdown = ""
    /\ rt_segments = <<>>

\* the exporter writes the span as Markdown
ExportRichText ==
    /\ rt_pc = "span"
    /\ rt_markdown' = RichTextToMarkdown(rt_rich, TRUE)
    /\ rt_pc' = "markdown"
    /\ UNCHANGED <<notRichText, rt_rich, rt_segments>>

\* the importer reads that Markdown
ImportRichText ==
    /\ rt_pc = "markdown"
    /\ rt_segments' = RichText(rt_markdown)
    /\ rt_pc' = "parsed"
    /\ UNCHANGED <<notRichText, rt_rich, rt_markdown>>

NextRichText ==
    \/ ExportRichText
    \/ ImportRichText

RichTextInit == InitRichText /\ IdleExcept("rich text")

RichTextSpec == RichTextInit /\ [][NextRichText]_vars

---------------------------------------------------------------------------
(* Claims about the rich text round trip *)

RECURSIVE Contents(_)
\* the concatenated text of a list of segments
Contents(segments) ==
    IF segments = <<>> THEN "" ELSE Head(segments).content \o Contents(Tail(segments))

\* the importer's annotations that say what the exporter's annotation list says
Annotated(annotations) ==
    LET color == LastArgument(annotations, "h", {"", "default"})
        name == [a \in {"b", "i", "s", "c", "_"} |->
                    CASE a = "b" -> "bold" [] a = "i" -> "italic"
                      [] a = "s" -> "strikethrough" [] a = "c" -> "code"
                      [] a = "_" -> "underline"]
        keys == {name[a] : a \in {b \in DOMAIN name : HasAnnotation(annotations, b)}}
                  \cup (IF color = "" THEN {} ELSE {"color"})
    IN  [k \in keys |-> IF k = "color" THEN color ELSE TRUE]

\* the one span of the round trip, once it is through
SpanText == rt_rich[1][1]
SpanAnnotations == rt_rich[1][2]
RoundTripDone == rt_pc = "parsed"

\* the text comes back, and every segment carries exactly the span's annotations
SpanPreserved ==
    /\ Contents(rt_segments) = SpanText
    /\ \A k \in 1..Len(rt_segments) :
          /\ rt_segments[k].annotations = Annotated(SpanAnnotations)
          /\ rt_segments[k].link = ""

\* a text with no character the importer reads as markup
NoMarkup(text) == NextSpecial(text) = Len(text) + 1

\* a text that neither begins nor ends with a space
NoOuterSpace(text) == text # "" /\ Head(text) # " " /\ Char(text, Len(text)) # " "

\* C8 as stated: every non-empty text with any combination of the annotations comes
\* back from _rich_text_to_markdown and _rich_text with its text and its annotations.
C8_RoundTrip ==
    (RoundTripDone /\ SpanText # "") => SpanPreserved

\* the extent of the round trip (C8): a text that has no markup character and neither
\* begins nor ends with a space comes back with its text, in segments that all carry
\* exactly its annotations; a text with no markup character comes back with its text.
C8_RoundTripPlain ==
    (RoundTripDone /\ NoMarkup(SpanText)) =>
        /\ Contents(rt_segments) = SpanText
        /\ NoOuterSpace(SpanText) => SpanPreserved

\* bold, italic, code and a color on a two-word text came back as one segment
C8_Witness ==
    /\ RoundTripDone
    /\ SpanText = "a b"
    /\ SpanAnnotations = << <<"b">>, <<"i">>, <<"c">>, <<"h", "red_background">> >>
    /\ rt_markdown = "<span style=\"background-color: #FDEBEC\">***^a b^***</span>"
    /\ Len(rt_segments) = 1
    /\ SpanPreserved

---------------------------------------------------------------------------
(* Blocks: _render_block of the exporter, _parse_markdown of the importer *)

\* emoji, which a TLA+ string cannot hold, are written as these characters
Bulb == "@"
RightArrow == "}"
PlayMark == "$"
SpeakerMark == "%"
\* the characters of the range U+1F300 to U+1F9FF that the model's texts use
Emojis == {Bulb}

\* the importer's source holds its emoji as their UTF-8 bytes read as another
\* encoding: four characters for the light bulb and the speaker, three for the
\* play mark
MisreadBulb == "|!!|"
MisreadPlayMark == "|>|"
MisreadSpeakerMark == "|))|"

\* the line separator
NL == "\n"

RECURSIVE Spaces(_)
\* "  " * indent
Spaces(indent) == IF indent <= 0 THEN "" ELSE "  " \o Spaces(indent - 1)

\* out.write(text), done while block_id is being rendered
Write(block_id, text) == << [block |-> block_id, text |-> text] >>

RECURSIVE Written(_)
\* the text of the file after these writes
Written(out) == IF out = <<>> THEN "" ELSE Head(out).text \o Written(Tail(out))

\* a block of a record map: its type, properties.title, content, alive,
\* format.page_icon ("" when it has none) and properties.language as plain text
RecordBlock(type, title, content) ==
    [type |-> type, title |-> title, content |-> content, alive |-> TRUE, icon |-> "",
     language |-> ""]

\* the fence of a code block
Fence == Backquote \o Backquote \o Backquote

RECURSIVE RichTextToPlain(_)
\* NotionPublicExporter._rich_text_to_plain
RichTextToPlain(rich) ==
    IF rich = <<>> THEN "" ELSE Head(rich)[1] \o RichTextToPlain(Tail(rich))

RECURSIVE ColumnsContent(_, _)
\* lines 503-510: the child lists of the columns of a column_list
ColumnsContent(child_ids, blocks) ==
    IF child_ids = <<>> THEN <<>>
    ELSE (IF Head(child_ids) \in DOMAIN blocks /\ blocks[Head(child_ids)].type = "column"
          THEN <<blocks[Head(child_ids)].content>> ELSE <<>>)
           \o ColumnsContent(Tail(child_ids), blocks)

\* lines 560-565: the callout takes its text from its first child
Hoists(text, child_ids, blocks) ==
    Strip(text) = "" /\ child_ids # <<>> /\ Head(child_ids) \in DOMAIN blocks

\* a callout that renders its first child again beneath itself
CalloutChildren_KeepsFirst(child_ids, hoisted) == child_ids

\* line 570: the children a callout still renders
CalloutChildren(child_ids, hoisted) == IF hoisted THEN Tail(child_ids) ELSE child_ids

\* lines 552-556
CalloutIcon(block) ==
    LET icon == IF block.icon = "" THEN Bulb ELSE block.icon
    IN  IF StartsWith(icon, "/icons/") THEN RightArrow ELSE icon

RECURSIVE RenderBlock(_, _, _)
RECURSIVE RenderEach(_, _, _)
RECURSIVE RenderCells(_, _, _)

\* for cid in ids: self._render_block(cid, blocks, out, indent, ...)
RenderEach(ids, blocks, indent) ==
    IF ids = <<>> THEN <<>>
    ELSE RenderBlock(Head(ids), blocks, indent) \o RenderEach(Tail(ids), blocks, indent)

\* lines 515-519: one table cell per column
RenderCells(block_id, columns_content, blocks) ==
    IF columns_content = <<>> THEN <<>>
    ELSE Write(block_id, "<td valign=\"top\">\n\n")
           \o RenderEach(Head(columns_content), blocks, 0)
           \o Write(block_id, "\n</td>\n")
           \o RenderCells(block_id, Tail(columns_content), blocks)

\* NotionPublicExporter._render_block, for the block types of the model: the writes
\* made, each with the block being rendered
RenderBlock(block_id, blocks, indent) ==
    IF block_id \notin DOMAIN blocks THEN <<>>
    ELSE IF ~blocks[block_id].alive THEN <<>>
    ELSE
    LET block == blocks[block_id]
        btype == block.type
        text == RichTextToMarkdown(block.title, TRUE)
        child_ids == block.content
        columns_content == ColumnsContent(child_ids, blocks)
        hoisted == Hoists(text, child_ids, blocks)
        callout_text == IF hoisted
                        THEN RichTextToMarkdown(blocks[Head(child_ids)].title, TRUE)
                        ELSE text
        next_indent == indent + (IF btype \in {"bulleted_list", "numbered_list", "to_do"}
                                 THEN 1 ELSE 0)
        own == CASE btype = "header" -> Write(block_id, "\n# " \o text \o "\n\n")
                 [] btype = "sub_header" -> Write(block_id, "\n## " \o text \o "\n\n")
                 [] btype = "sub_sub_header" -> Write(block_id, "\n### " \o text \o "\n\n")
                 [] btype = "bulleted_list" ->
                      Write(block_id, Spaces(indent) \o "- " \o text \o "\n")
                 [] btype = "numbered_list" ->
                      Write(block_id, Spaces(indent) \o "1. " \o text \o "\n")
                 [] btype = "quote" -> Write(block_id, "> " \o text \o "\n\n")
                 [] btype = "code" ->
                      Write(block_id, "\n" \o Fence \o block.language \o "\n"
                                        \o RichTextToPlain(block.title) \o "\n" \o Fence \o "\n\n")
                 [] btype = "divider" -> Write(block_id, "\n---\n\n")
                 [] btype = "text" ->
                      IF text # "" THEN Write(block_id, "\n" \o text \o "\n") ELSE <<>>
                 [] OTHER -> IF text # "" THEN Write(block_id, text \o "\n") ELSE <<>>
    IN  IF btype = "column_list"
        THEN IF child_ids = <<>> THEN <<>>
             ELSE IF Len(columns_content) > 1
             THEN Write(block_id, "\n<table><tr>\n")
                    \o RenderCells(block_id, columns_content, blocks)
                    \o Write(block_id, "</tr></table>\n\n")
             ELSE IF columns_content = <<>> THEN <<>>
             ELSE RenderEach(columns_content[1], blocks, indent)
        ELSE IF btype = "column" THEN <<>>
        ELSE IF btype = "callout"
        THEN Write(block_id, "> " \o CalloutIcon(block) \o " " \o callout_text \o "\n\n")
               \o RenderEach(CalloutChildren(child_ids, hoisted), blocks, indent)
        ELSE IF btype = "toggle"
        THEN Write(block_id, "\n<details>\n<summary>" \o text \o "</summary>\n\n")
               \o RenderEach(child_ids, blocks, indent)
               \o Write(block_id, "\n</details>\n\n")
        ELSE own \o RenderEach(child_ids, blocks, next_indent)

\* _export_page, lines 702-704 and 735-737: the title line and the blocks of the page
RenderPage(page_id, blocks) ==
    LET plain == RichTextToPlain(blocks[page_id].title)
        page_title == IF plain = "" THEN "untitled" ELSE plain
    IN  Write(page_id, "# " \o page_title \o "\n\n")
          \o RenderEach(blocks[page_id].content, blocks, 0)

RECURSIVE Split(_, _)
\* str.split(sep) for a separator of one character
Split(s, sep) ==
    LET k == Find(s, sep)
    IN  IF k = 0 THEN <<s>> ELSE <<Sub(s, 1, k - 1)>> \o Split(From(s, k + 1), sep)

RECURSIVE Join(_, _)
\* sep.join(parts)
Join(parts, sep) ==
    IF parts = <<>> THEN ""
    ELSE IF Len(parts) = 1 THEN parts[1]
    ELSE parts[1] \o sep \o Join(Tail(parts), sep)

\* a block of the importer: its type, its rich_text, its children, and the emoji,
\* language or url of the types that have one
ApiBlock(type, rich_text, children) ==
    [type |-> type, rich_text |-> rich_text, children |-> children,
     icon |-> "", language |-> "", url |-> ""]

\* _heading_block, _paragraph_block, _bullet_block, _numbered_block, _quote_block
TextBlock(type, text) == ApiBlock(type, RichText(text), <<>>)

\* _callout_block
CalloutBlock(text, icon) == [ApiBlock("callout", RichText(text), <<>>) EXCEPT !.icon = icon]

\* _code_block, lines 513-522: lang_map.get(language.lower(), language.lower()) or "plain text"
LangMap(language) ==
    LET low == Lower(language)
    IN  CASE low = "js" -> "javascript" [] low = "ts" -> "typescript"
          [] low = "py" -> "python" [] low = "rb" -> "ruby"
          [] low \in {"sh", "bash"} -> "shell" [] low = "" -> "plain text"
          [] OTHER -> low

\* _code_block
CodeBlock(code, language) ==
    [ApiBlock("code", <<Segment(code, <<>>)>>, <<>>) EXCEPT !.language = LangMap(language)]

\* _image_block of an importer with no uploader: only an http source gives a block
ImageBlock(src) ==
    IF StartsWith(src, "http") THEN <<[ApiBlock("image", <<>>, <<>>) EXCEPT !.url = src]>>
    ELSE <<>>

\* _embed_block
EmbedBlock(url) ==
    IF Contains(url, "youtube.com") \/ Contains(url, "youtu.be") \/ Contains(url, "vimeo.com")
    THEN [ApiBlock("video", <<>>, <<>>) EXCEPT !.url = url]
    ELSE [ApiBlock("embed", <<>>, <<>>) EXCEPT !.url = url]

\* _bookmark_block
BookmarkBlock(url) == [ApiBlock("bookmark", <<>>, <<>>) EXCEPT !.url = url]

\* lines 195-196: the emoji a quote begins with, "" when it begins with none
EmojiMatch(quote_text) ==
    IF Char(quote_text, 1) \in Emojis THEN Char(quote_text, 1)
    ELSE IF StartsWith(quote_text, MisreadBulb) THEN MisreadBulb
    ELSE ""

\* re.match(r"^\s*\d+\.\s", line): the length of the match, 0 when there is none
NumberedMatch(line) ==
    LET a == Len(line) - Len(LStrip(line)) + 1
        ends == {k \in a..Len(line) : \A j \in a..k : Char(line, j) \in Digits}
        d == IF ends = {} THEN 0 ELSE CHOOSE k \in ends : \A j \in ends : j <= k
    IN  IF d # 0 /\ Char(line, d + 1) = "." /\ Char(line, d + 2) \in WhiteSpace
        THEN d + 2 ELSE 0

\* re.match(r"!\[([^\]]*)\]\(([^)]+)\)", s): g1 the alternative text, g2 the source
ImageMatch(s) ==
    IF ~StartsWith(s, "![") THEN NoMatch
    ELSE LET b == FindFrom(s, "]", 3)
         IN  IF b = 0 \/ Char(s, b + 1) # "(" THEN NoMatch
             ELSE LET p == FindFrom(s, ")", b + 2)
                  IN  IF p = 0 \/ p = b + 2 THEN NoMatch
                      ELSE [ok |-> TRUE, g1 |-> Sub(s, 3, b - 1),
                            g2 |-> Sub(s, b + 2, p - 1), g3 |-> From(s, p + 1)]

\* re.match(r"^\[.+\]\(.+\)$", s)
LinkLine(s) ==
    /\ StartsWith(s, "[") /\ Char(s, Len(s)) = ")"
    /\ \E k \in 3..(Len(s) - 3) : Sub(s, k, k + 1) = "]("

RECURSIVE CodeEnd(_, _)
\* lines 208-210: the index of the closing fence, Len(lines) + 1 when there is none
CodeEnd(lines, j) ==
    IF j <= Len(lines) /\ ~StartsWith(lines[j], Fence) THEN CodeEnd(lines, j + 1) ELSE j

RECURSIVE TableEnd(_, _)
\* lines 218-220: the index after the line that holds </table>
TableEnd(lines, j) ==
    IF j <= Len(lines) /\ ~Contains(lines[j - 1], "</table>") THEN TableEnd(lines, j + 1)
    ELSE j

RECURSIVE DetailsEnd(_, _, _)
\* lines 233-239: the index after the line that closes the <details>
DetailsEnd(lines, j, depth) ==
    IF j <= Len(lines) /\ depth > 0
    THEN DetailsEnd(lines, j + 1,
                    depth + (IF Contains(lines[j], "<details>") THEN 1 ELSE 0)
                          - (IF Contains(lines[j], "</details>") THEN 1 ELSE 0))
    ELSE j

\* lines 280-287: the paragraph absorbs the next line
Absorbs(next) ==
    /\ Strip(next) # ""
    /\ ~StartsWith(next, "#") /\ ~StartsWith(next, "-") /\ ~StartsWith(next, ">")
    /\ ~StartsWith(next, Fence) /\ ~StartsWith(next, "![")
    /\ Strip(next) # "---"

RECURSIVE ParaEnd(_, _)
\* lines 280-289: the index of the last line of the paragraph that starts at line i
ParaEnd(lines, i) ==
    IF i + 1 <= Len(lines) /\ Absorbs(lines[i + 1]) THEN ParaEnd(lines, i + 1) ELSE i

RECURSIVE FindAllCells(_, _)
\* re.compile(r'<td[^>]*>(.*?)</td>', re.DOTALL).findall(html), from position `from`
FindAllCells(html, from) ==
    LET p == FindFrom(html, "<td", from)
        g == IF p = 0 THEN 0 ELSE FindFrom(html, ">", p + 3)
        e == IF g = 0 THEN 0 ELSE FindFrom(html, "</td>", g + 1)
    IN  IF e = 0 THEN <<>>
        ELSE <<Sub(html, g + 1, e - 1)>> \o FindAllCells(html, e + 5)

\* the last position where p occurs in s, 0 when there is none
FindLast(s, p) ==
    LET hits == {k \in 1..(Len(s) - Len(p) + 1) : SubSeq(s, k, k + Len(p) - 1) = p}
    IN  IF hits = {} THEN 0 ELSE CHOOSE k \in hits : \A j \in hits : j <= k

RECURSIVE ParseMarkdown(_)
RECURSIVE ParseLines(_, _)
RECURSIVE ParseCells(_)

\* lines 622-636: a column for every cell whose content gives blocks
ParseCells(cells) ==
    IF cells = <<>> THEN <<>>
    ELSE LET cell_blocks == ParseMarkdown(Strip(Head(cells)))
         IN  (IF cell_blocks # <<>> THEN <<ApiBlock("column", <<>>, cell_blocks)>> ELSE <<>>)
               \o ParseCells(Tail(cells))

\* NotionImporter._parse_table_columns: <<>> stands for None
ParseTableColumns(table_html) ==
    LET columns == ParseCells(FindAllCells(table_html, 1))
    IN  IF columns # <<>> THEN <<ApiBlock("column_list", <<>>, columns)>> ELSE <<>>

\* NotionImporter._parse_toggle: <<>> stands for None
ParseToggle(details_html) ==
    LET s == Find(details_html, "<summary>")
        e == IF s = 0 THEN 0 ELSE FindFrom(details_html, "</summary>", s + 9)
        c == Find(details_html, "</summary>")
        d == IF c = 0 THEN 0 ELSE FindLast(From(details_html, c + 10), "</details>")
        content_text == IF d = 0 THEN "" ELSE Strip(Sub(details_html, c + 10, c + 8 + d))
    IN  IF e = 0 THEN <<>>
        ELSE <<ApiBlock("toggle", RichText(Strip(Sub(details_html, s + 9, e - 1))),
                        IF content_text # "" THEN ParseMarkdown(content_text) ELSE <<>>)>>

\* NotionImporter._parse_markdown, from line i of the lines on
ParseLines(lines, i) ==
    IF i > Len(lines) THEN <<>>
    ELSE
    LET line == lines[i]
        stripped == Strip(line)
        numbered == NumberedMatch(line)
        quote_text == Strip(From(line, 3))
        emoji == EmojiMatch(quote_text)
        code_end == CodeEnd(lines, i + 1)
        table_end == TableEnd(lines, i + 1)
        details_end == DetailsEnd(lines, i + 1, 1)
        image == ImageMatch(stripped)
        link == LinkMatch(stripped)
        para_end == ParaEnd(lines, i)
        para == Join(SubSeq(lines, i, para_end), " ")
    IN  IF stripped = "" THEN ParseLines(lines, i + 1)
        ELSE IF StartsWith(line, "# ")
        THEN <<TextBlock("heading_1", Strip(From(line, 3)))>> \o ParseLines(lines, i + 1)
        ELSE IF StartsWith(line, "## ")
        THEN <<TextBlock("heading_2", Strip(From(line, 4)))>> \o ParseLines(lines, i + 1)
        ELSE IF StartsWith(line, "### ")
        THEN <<TextBlock("heading_3", Strip(From(line, 5)))>> \o ParseLines(lines, i + 1)
        ELSE IF stripped = "---"
        THEN <<ApiBlock("divider", <<>>, <<>>)>> \o ParseLines(lines, i + 1)
        ELSE IF StartsWith(stripped, "- ")
        THEN <<TextBlock("bulleted_list_item", From(stripped, 3))>>
               \o ParseLines(lines, i + 1)
        ELSE IF numbered # 0
        THEN <<TextBlock("numbered_list_item", From(line, numbered + 1))>>
               \o ParseLines(lines, i + 1)
        ELSE IF StartsWith(line, "> ")
        THEN (IF emoji # ""
              THEN <<CalloutBlock(LStrip(From(quote_text, Len(emoji) + 1)), emoji)>>
              ELSE <<TextBlock("quote", quote_text)>>)
               \o ParseLines(lines, i + 1)
        ELSE IF StartsWith(line, Fence)
        THEN <<CodeBlock(Join(SubSeq(lines, i + 1, code_end - 1), NL), Strip(From(line, 4)))>>
               \o ParseLines(lines, code_end + 1)
        ELSE IF StartsWith(stripped, "<table>")
        THEN ParseTableColumns(Join(SubSeq(lines, i, table_end - 1), NL))
               \o ParseLines(lines, table_end)
        ELSE IF StartsWith(stripped, "<details>")
        THEN ParseToggle(Join(SubSeq(lines, i, details_end - 1), NL))
               \o ParseLines(lines, details_end)
        ELSE IF StartsWith(stripped, "![")
        THEN (IF image.ok THEN ImageBlock(image.g2) ELSE <<>>) \o ParseLines(lines, i + 1)
        ELSE IF StartsWith(stripped, "[" \o MisreadPlayMark)
                  \/ StartsWith(stripped, "[" \o MisreadSpeakerMark)
        THEN (IF link.ok THEN <<EmbedBlock(link.g2)>> ELSE <<>>) \o ParseLines(lines, i + 1)
        ELSE IF LinkLine(stripped)
        THEN (IF ~link.ok THEN <<>>
              ELSE IF StartsWith(link.g2, "http") THEN <<BookmarkBlock(link.g2)>>
              ELSE <<TextBlock("paragraph", link.g1)>>)
               \o ParseLines(lines, i + 1)
        ELSE (IF Strip(para) # "" THEN <<TextBlock("paragraph", para)>> ELSE <<>>)
               \o ParseLines(lines, para_end + 1)

\* NotionImporter._parse_markdown
ParseMarkdown(md_content) == ParseLines(Split(md_content, NL), 1)

---------------------------------------------------------------------------
(* A document through the importer, the service and the exporter *)

MaxCells == 3
MaxChildren == 3

\* the contents of a table cell
CellTexts == {"a", "b c", "**b**", "- x", "# h", "", " "}

RECURSIVE TableRows(_)
\* the cells as the exporter writes them
TableRows(cells) ==
    IF cells = <<>> THEN ""
    ELSE "<td valign=\"top\">\n\n" \o Head(cells) \o "\n</td>\n" \o TableRows(Tail(cells))

\* a table over these cells, as the exporter writes it and on one line
ExportedTable(cells) == "\n<table><tr>\n" \o TableRows(cells) \o "</tr></table>\n\n"
InlineTable(cells) ==
    "<table><tr>"
      \o Join([k \in 1..Len(cells) |-> "<td>" \o cells[k] \o "</td>"], "")
      \o "</tr></table>"

CellLists == UNION {[1..n -> CellTexts] : n \in 2..MaxCells}
Tables == {ExportedTable(cells) : cells \in CellLists}
            \cup {InlineTable(cells) : cells \in CellLists}

\* what the service keeps of the importer's blocks (the record map the exporter
\* later fetches): the block types under their record-map names, the segments as
\* parts, the children under identifiers made of the parent's and their position
RecordType(type) ==
    CASE type = "paragraph" -> "text" [] type = "heading_1" -> "header"
      [] type = "heading_2" -> "sub_header" [] type = "heading_3" -> "sub_sub_header"
      [] type = "bulleted_list_item" -> "bulleted_list"
      [] type = "numbered_list_item" -> "numbered_list"
      [] OTHER -> type

StoredPart(segment) ==
    LET a == segment.annotations
        Flag(key, mark) == IF key \in DOMAIN a THEN << <<mark>> >> ELSE <<>>
    IN  <<segment.content,
          Flag("bold", "b") \o Flag("italic", "i") \o Flag("strikethrough", "s")
            \o Flag("code", "c") \o Flag("underline", "_")
            \o (IF segment.link # "" THEN << <<"a", segment.link>> >> ELSE <<>>)
            \o (IF "color" \in DOMAIN a THEN << <<"h", a["color"]>> >> ELSE <<>>)>>

StoredTitle(rich_text) == [k \in 1..Len(rich_text) |-> StoredPart(rich_text[k])]

Ordinal == <<"1", "2", "3", "4", "5", "6", "7", "8", "9">>
ChildId(parent, k) == parent \o "." \o Ordinal[k]
ChildIds(parent, n) == [k \in 1..n |-> ChildId(parent, k)]

RECURSIVE StoredTree(_, _)
RECURSIVE StoredChildren(_, _, _)
StoredChildren(children, parent, k) ==
    IF k > Len(children) THEN <<>>
    ELSE StoredTree(children[k], ChildId(parent, k))
           @@ StoredChildren(children, parent, k + 1)

StoredTree(block, id) ==
    (id :> [RecordBlock(RecordType(block.type), StoredTitle(block.rich_text),
                        ChildIds(id, Len(block.children)))
              EXCEPT !.icon = block.icon, !.language = block.language])
      @@ StoredChildren(block.children, id, 1)

PageId == "p"
StoredPage(title, children) ==
    (PageId :> RecordBlock("page", << <<title, <<>> >> >>, ChildIds(PageId, Len(children))))
      @@ StoredChildren(children, PageId, 1)

\* the pages with a callout: the callout has one of these texts, up to MaxChildren
\* children, and the first child is of one of these types
CalloutTitles == {<<>>, << <<" ", <<>> >> >>, << <<"Note", << <<"b">> >> >> >>}
ChildTexts == <<"one", "two", "three", "four">>
FirstChildTypes == {"text", "bulleted_list", "toggle"}
CalloutIcons == {"", "/icons/star_gray.svg"}

CalloutPage(title, n, first_type, dead, icon, nested) ==
    LET c == ChildId(PageId, 1)
        Child(k) ==
            [RecordBlock(IF k = 1 THEN first_type ELSE "text",
                         << <<ChildTexts[k], IF k = 2 THEN << <<"i">> >> ELSE <<>> >> >>,
                         IF k = 1 /\ nested THEN <<ChildId(ChildId(c, 1), 1)>> ELSE <<>>)
               EXCEPT !.alive = (k # dead)]
    IN  (PageId :> RecordBlock("page", << <<"Page", <<>> >> >>, <<c, ChildId(PageId, 2)>>))
          @@ (c :> [RecordBlock("callout", title, ChildIds(c, n)) EXCEPT !.icon = icon])
          @@ (ChildId(PageId, 2) :> RecordBlock("text", << <<"after", <<>> >> >>, <<>>))
          @@ [id \in {ChildId(c, k) : k \in 1..n} |->
                Child(CHOOSE k \in 1..n : ChildId(c, k) = id)]
          @@ (IF nested /\ n > 0
              THEN (ChildId(ChildId(c, 1), 1)
                      :> RecordBlock("text", << <<"inner", <<>> >> >>, <<>>))
              ELSE <<>>)

CalloutPages ==
    {CalloutPage(title, n, first_type, dead, icon, nested) :
        title \in CalloutTitles, n \in 0..MaxChildren, first_type \in FirstChildTypes,
        dead \in 0..MaxChildren, icon \in CalloutIcons, nested \in BOOLEAN}

\* the pages with a column list: up to MaxCells columns, each of them with no,
\* one or two paragraphs
ColumnPage(sizes) ==
    LET list == ChildId(PageId, 1)
        Column(k) == ChildId(list, k)
    IN  (PageId :> RecordBlock("page", << <<"Page", <<>> >> >>, <<list>>))
          @@ (list :> RecordBlock("column_list", <<>>, ChildIds(list, Len(sizes))))
          @@ [id \in {Column(k) : k \in 1..Len(sizes)} |->
                LET k == CHOOSE j \in 1..Len(sizes) : Column(j) = id
                IN  RecordBlock("column", <<>>, ChildIds(id, sizes[k]))]
          @@ [id \in {ChildId(Column(k), j) : k \in 1..Len(sizes), j \in 1..2} |->
                LET j == CHOOSE i \in 1..2 : \E k \in 1..Len(sizes) : ChildId(Column(k), i) = id
                IN  RecordBlock("text", << <<ChildTexts[j], <<>> >> >>, <<>>)]

ColumnPages == {ColumnPage(sizes) : sizes \in UNION {[1..n -> 0..2] : n \in 2..MaxCells}}

\* the fenced code blocks: a language token and up to MaxBodyLines lines
MaxBodyLines == 2
LanguageTokens == {"", "py", "python", "JS", "rust"}
BodyLines == {"x = 1", "", "  y", "# c"}
FencedCode(language, body) ==
    Fence \o language \o NL \o Join(body, NL) \o (IF body = <<>> THEN "" ELSE NL) \o Fence
CodeFences ==
    {FencedCode(language, body) :
        language \in LanguageTokens,
        body \in UNION {[1..n -> BodyLines] : n \in 0..MaxBodyLines}}

InitDocument ==
    /\ \/ doc_pc = "markdown" /\ doc_markdown \in Tables \cup CodeFences /\ doc_blocks = <<>>
       \/ doc_pc = "stored" /\ doc_markdown = "" /\ doc_blocks \in CalloutPages \cup ColumnPages
    /\ doc_parsed = <<>>
    /\ doc_out = <<>>
    /\ doc_reparsed = <<>>

\* the importer reads the Markdown
ImportMarkdown ==
    /\ doc_pc = "markdown"
    /\ doc_parsed' = ParseMarkdown(doc_markdown)
    /\ doc_pc' = "parsed"
    /\ UNCHANGED <<notDocument, doc_markdown, doc_blocks, doc_out, doc_reparsed>>

\* the service creates the page with these blocks
CreatePage ==
    /\ doc_pc = "parsed"
    /\ doc_blocks' = StoredPage("Page", doc_parsed)
    /\ doc_pc' = "stored"
    /\ UNCHANGED <<notDocument, doc_markdown, doc_parsed, doc_out, doc_reparsed>>

\* the exporter writes the page
ExportPage ==
    /\ doc_pc = "stored"
    /\ doc_out' = RenderPage(PageId, doc_blocks)
    /\ doc_pc' = "rendered"
    /\ UNCHANGED <<notDocument, doc_markdown, doc_parsed, doc_blocks, doc_reparsed>>

\* the importer reads what the exporter wrote
ReimportPage ==
    /\ doc_pc = "rendered"
    /\ doc_reparsed' = ParseMarkdown(Written(doc_out))
    /\ doc_pc' = "reparsed"
    /\ UNCHANGED <<notDocument, doc_markdown, doc_parsed, doc_blocks, doc_out>>

NextDocument ==
    \/ ImportMarkdown
    \/ CreatePage
    \/ ExportPage
    \/ ReimportPage

DocumentInit == InitDocument /\ IdleExcept("document")

DocumentSpec == DocumentInit /\ [][NextDocument]_vars

---------------------------------------------------------------------------
(* Claims about tables and callouts *)

RECURSIVE Count(_, _)
\* how often p occurs in s
Count(s, p) ==
    LET k == Find(s, p)
    IN  IF k = 0 THEN 0 ELSE 1 + Count(From(s, k + Len(p)), p)

EndsWith(s, p) == Len(s) >= Len(p) /\ From(s, Len(s) - Len(p) + 1) = p

\* the positions of the writes done while this block was being rendered
Positions(block_id) == {p \in 1..Len(doc_out) : doc_out[p].block = block_id}

\* the column blocks among the children of a block
ColumnsOf(block_id) ==
    {k \in 1..Len(doc_blocks[block_id].content) :
        /\ doc_blocks[block_id].content[k] \in DOMAIN doc_blocks
        /\ doc_blocks[doc_blocks[block_id].content[k]].type = "column"}

\* the column lists of the page that have at least two columns
ColumnLists ==
    {id \in DOMAIN doc_blocks :
        /\ doc_blocks[id].type = "column_list"
        /\ doc_blocks[id].alive
        /\ \E k \in 1..Len(doc_blocks[PageId].content) : doc_blocks[PageId].content[k] = id
        /\ Cardinality(ColumnsOf(id)) >= 2}

\* the cells written for a column list: the positions of its <td ...> writes
CellsWritten(id) == {p \in Positions(id) : StartsWith(doc_out[p].text, "<td")}

\* a table of n >= 2 cells was parsed into one column list of n columns
ParsedEveryCell ==
    (doc_pc \notin {"idle", "markdown"} /\ Count(doc_markdown, "<td") >= 2)
        => /\ Len(doc_parsed) = 1
           /\ doc_parsed[1].type = "column_list"
           /\ Len(doc_parsed[1].children) = Count(doc_markdown, "<td")
           /\ \A k \in 1..Len(doc_parsed[1].children) :
                doc_parsed[1].children[k].type = "column"

\* a column list of n >= 2 columns was rendered with n cells, and what is written
\* from the opening of the k-th cell to the next belongs to the k-th column
RenderedEveryColumn ==
    doc_pc \in {"rendered", "reparsed"}
        => \A id \in ColumnLists :
             /\ Cardinality(CellsWritten(id)) = Cardinality(ColumnsOf(id))
             /\ \A p \in CellsWritten(id) : \A r \in (p + 1)..Len(doc_out) :
                  LET k == Cardinality({c \in CellsWritten(id) : c <= p})
                  IN  (/\ \A c \in CellsWritten(id) : c <= p \/ c > r
                       /\ \E c \in Positions(id) : c > r)
                        => \/ doc_out[r].block = id
                           \/ StartsWith(doc_out[r].block, ChildId(id, k) \o ".")
             /\ \A k \in ColumnsOf(id) : \A j \in 1..Len(doc_blocks[ChildId(id, k)].content) :
                  Positions(ChildId(ChildId(id, k), j)) # {}

\* a table of two cells came back from the importer, the service and the exporter
\* as a table of two cells that the importer reads as it read the first
TwoCellsRoundTrip ==
    (doc_pc = "reparsed" /\ Count(doc_markdown, "<td") = 2)
        => /\ Count(Written(doc_out), "<td") = 2
           /\ Len(doc_reparsed) = 2
           /\ doc_reparsed[2].type = "column_list"
           /\ Len(doc_reparsed[2].children) = 2
           /\ <<doc_reparsed[2]>> = doc_parsed

\* C9: an HTML table with n >= 2 cells parses to one column_list with exactly n
\* column children in cell order, a column_list of n >= 2 columns is rendered as
\* n <td> cells in column order, and a table of two cells round-trips to a table
\* of two cells with the same contents in the same order.
C9_ColumnsRoundTrip == ParsedEveryCell /\ RenderedEveryColumn /\ TwoCellsRoundTrip

\* a reachable state C9 fails in: what the exporter wrote for a column "one" and
\* an empty column was read by the importer as one column
C9_Witness ==
    /\ doc_pc = "reparsed"
    /\ doc_blocks = ColumnPage(<<1, 0>>)
    /\ Count(Written(doc_out), "<td") = 2
    /\ Len(doc_reparsed) = 2
    /\ Len(doc_reparsed[2].children) = 1

\* the extent of the column round trip (C9): every table whose cells all give
\* blocks is parsed cell by cell, and a table of two such cells round-trips
C9_NonEmptyCells ==
    (\A k \in 1..Len(FindAllCells(doc_markdown, 1)) :
        ParseMarkdown(Strip(FindAllCells(doc_markdown, 1)[k])) # <<>>)
        => ParsedEveryCell /\ TwoCellsRoundTrip

\* the callouts of the page whose own text is empty and whose first child exists
HoistingCallouts ==
    {c \in DOMAIN doc_blocks :
        /\ doc_blocks[c].type = "callout"
        /\ doc_blocks[c].alive
        /\ \E k \in 1..Len(doc_blocks[PageId].content) : doc_blocks[PageId].content[k] = c
        /\ Strip(RichTextToMarkdown(doc_blocks[c].title, TRUE)) = ""
        /\ doc_blocks[c].content # <<>>
        /\ Head(doc_blocks[c].content) \in DOMAIN doc_blocks}

\* the position of the only write of a block
PositionOf(block_id) == CHOOSE p \in Positions(block_id) : TRUE

\* C10: when a callout has no text of its own and has children, the first
\* child's text is written on the callout line, nothing is written for that
\* child beneath it, and every remaining live child is written once beneath the
\* callout, in the order of the children.
C10_CalloutHoistsFirstChild ==
    doc_pc = "rendered"
        => \A c \in HoistingCallouts :
             LET kids == doc_blocks[c].content
                 first == doc_blocks[Head(kids)]
                 Live(k) == kids[k] \in DOMAIN doc_blocks /\ doc_blocks[kids[k]].alive
             IN  /\ Cardinality(Positions(c)) = 1
                 /\ StartsWith(doc_out[PositionOf(c)].text, "> ")
                 /\ EndsWith(doc_out[PositionOf(c)].text,
                             " " \o RichTextToMarkdown(first.title, TRUE) \o "\n\n")
                 /\ Positions(Head(kids)) = {}
                 /\ \A k \in 2..Len(kids) :
                      /\ Cardinality(Positions(kids[k])) = (IF Live(k) THEN 1 ELSE 0)
                      /\ Live(k) => PositionOf(kids[k]) > PositionOf(c)
                      /\ \A j \in 2..(k - 1) :
                           (Live(j) /\ Live(k)) => PositionOf(kids[j]) < PositionOf(kids[k])

\* a callout without text and with three live children, the first of them with a
\* child of its own, has been rendered
C10_Witness ==
    /\ doc_pc = "rendered"
    /\ \E c \in HoistingCallouts :
         /\ Len(doc_blocks[c].content) = 3
         /\ \A k \in 1..3 : doc_blocks[doc_blocks[c].content[k]].alive
         /\ doc_blocks[Head(doc_blocks[c].content)].content # <<>>
         /\ Cardinality(Positions(c)) = 1
         /\ EndsWith(doc_out[PositionOf(c)].text, " one\n\n")
         /\ Positions(doc_blocks[c].content[3]) # {}

---------------------------------------------------------------------------
(* Claims about fenced code blocks *)

\* the lines of the document, its language token and its body lines
FenceLines == Split(doc_markdown, NL)
FenceLanguage == Strip(From(FenceLines[1], 4))
FenceBody == SubSeq(FenceLines, 2, Len(FenceLines) - 1)

\* a fenced code block was parsed into one code block with the body lines joined
\* verbatim and the alias-table image of the language token
FenceParsed ==
    (doc_pc \notin {"idle", "markdown"} /\ doc_markdown \in CodeFences)
        => /\ Len(doc_parsed) = 1
           /\ doc_parsed[1].type = "code"
           /\ Len(doc_parsed[1].rich_text) = 1
           /\ doc_parsed[1].rich_text[1].content = Join(FenceBody, NL)
           /\ doc_parsed[1].language = LangMap(FenceLanguage)

\* the code block was rendered as the fence it was parsed from
FenceRendered ==
    (doc_pc \in {"rendered", "reparsed"} /\ doc_markdown \in CodeFences)
        => /\ Len(doc_out) = 2
           /\ Strip(doc_out[2].text) = doc_markdown

\* C11: a fenced code block (language token L, body lines, closing fence) parses
\* to one code block with the body lines joined verbatim and the alias-table
\* image of L as language, and rendering that block reproduces a fence identical
\* to the input, with the same language token and the same body.
C11_FenceRoundTrip == FenceParsed /\ FenceRendered

\* a reachable state C11 fails in: the fence of language py came back as a fence
\* of language python
C11_Witness ==
    /\ doc_pc = "rendered"
    /\ doc_markdown = FencedCode("py", <<"x = 1">>)
    /\ Strip(doc_out[2].text) = FencedCode("python", <<"x = 1">>)

\* the extent of the fence round trip (C11): the parse is as claimed, and a fence
\* whose language token the alias table leaves alone and whose body has a line
\* comes back identical
C11_UnaliasedFence ==
    /\ FenceParsed
    /\ (doc_markdown \in CodeFences /\ LangMap(FenceLanguage) = FenceLanguage
          /\ FenceBody # <<>>) => FenceRendered


---------------------------------------------------------------------------
(* NotionImporter.import_directory *)

MaxPages == 3

\* the relative paths of the model, as their parts; <<>> is the input directory
RelPaths == {<<>>, <<"a">>, <<"b">>, <<"a", "c">>, <<"a", "c", "d">>, <<"b", "e">>, <<"f", "g">>}

\* str(rel_path)
Str(rel_path) == IF rel_path = <<>> THEN "." ELSE Join(rel_path, "/")

\* rel_path.parent
ParentOf(rel_path) == SubSeq(rel_path, 1, Len(rel_path) - 1)

\* self.parent_page_id, and the identifier the service gives to the page of a path
ParentPageId == "parent-page"
CreatedId(rel_path) == "page:" \o Str(rel_path)

\* lines 703-709: what rglob found, in any order, sorted by depth (the sort is stable)
SortedByDepth(pages) ==
    /\ Len(pages) = Cardinality(imp_dirs)
    /\ {pages[k] : k \in 1..Len(pages)} = imp_dirs
    /\ \A j, k \in 1..Len(pages) : j < k => Len(pages[j]) <= Len(pages[k])

\* lines 737-741: the parent of the page at rel_path
ParentIdOf(rel_path) ==
    IF Len(rel_path) = 0 \/ Str(rel_path) = "." THEN ParentPageId
    ELSE IF Str(ParentOf(rel_path)) \in DOMAIN created_pages
         THEN created_pages[Str(ParentOf(rel_path))]
         ELSE ParentPageId

InitImport ==
    /\ imp_pc = "start"
    /\ imp_dirs \in {dirs \in SUBSET RelPaths : Cardinality(dirs) \in 1..MaxPages}
    /\ imp_pages = <<>>
    /\ created_pages = <<>>
    /\ imp_attempts = <<>>
    /\ remote_pages = {}

\* lines 699-711: find the pages and sort them
FindPages ==
    /\ imp_pc = "start"
    /\ \E pages \in [1..Cardinality(imp_dirs) -> imp_dirs] :
         /\ SortedByDepth(pages)
         /\ imp_pages' = pages
    /\ imp_pc' = "loop"
    /\ UNCHANGED <<notImport, imp_dirs, created_pages, imp_attempts, remote_pages>>

\* lines 713-751: one page, create_page returns the identifier of the new page
ImportPageCreated ==
    /\ imp_pc = "loop"
    /\ imp_pages # <<>>
    /\ LET rel_path == Head(imp_pages)
           parent_id == ParentIdOf(rel_path)
       IN  /\ imp_attempts' = Append(imp_attempts,
                                     [path |-> rel_path, parent_id |-> parent_id, ok |-> TRUE])
           /\ created_pages' = (Str(rel_path) :> CreatedId(rel_path)) @@ created_pages
           /\ remote_pages' = remote_pages \cup {rel_path}
    /\ imp_pages' = Tail(imp_pages)
    /\ UNCHANGED <<notImport, imp_pc, imp_dirs>>

\* create_page, lines 683-690: the calls that can raise; when blocks.children.append
\* raises (a page of more than 100 blocks), pages.create has made the page
FailingCalls == {"pages.create", "blocks.children.append"}

\* lines 713-754: one page, create_page raises: the failure is printed, nothing recorded
ImportPageFailed ==
    /\ imp_pc = "loop"
    /\ imp_pages # <<>>
    /\ LET rel_path == Head(imp_pages)
           parent_id == ParentIdOf(rel_path)
       IN  /\ imp_attempts' = Append(imp_attempts,
                                     [path |-> rel_path, parent_id |-> parent_id, ok |-> FALSE])
           /\ \E failing \in FailingCalls :
                remote_pages' = IF failing = "blocks.children.append"
                                THEN remote_pages \cup {rel_path} ELSE remote_pages
    /\ imp_pages' = Tail(imp_pages)
    /\ UNCHANGED <<notImport, imp_pc, imp_dirs, created_pages>>

NextImport ==
    \/ FindPages
    \/ ImportPageCreated
    \/ ImportPageFailed

ImportInit == InitImport /\ IdleExcept("import")

ImportSpec == ImportInit /\ [][NextImport]_vars

---------------------------------------------------------------------------
(* Claims about import_directory *)

\* the attempts made for a path
AttemptsOf(rel_path) == {k \in 1..Len(imp_attempts) : imp_attempts[k].path = rel_path}

\* the attempts on pages whose parent directory holds a page too
ChildAttempts ==
    {k \in 1..Len(imp_attempts) :
        /\ imp_attempts[k].path # <<>>
        /\ ParentOf(imp_attempts[k].path) \in imp_dirs}

\* the creation of the parent directory's page was attempted first
ParentAttemptedFirst ==
    \A k \in ChildAttempts :
        \E j \in 1..(k - 1) : imp_attempts[j].path = ParentOf(imp_attempts[k].path)

\* the page was created under the page of its parent directory
CreatedUnderParent ==
    \A k \in ChildAttempts :
        /\ imp_attempts[k].parent_id = CreatedId(ParentOf(imp_attempts[k].path))
        /\ imp_attempts[k].parent_id # ParentPageId

\* C12: for every local page at path p whose parent directory q also holds a
\* page, the creation of q is attempted before the creation of p, and p is
\* created with the identifier recorded for q as parent, not with the configured
\* root parent.
C12_ParentBeforeChild == ParentAttemptedFirst /\ CreatedUnderParent

\* a reachable state C12 fails in: the creation of a failed, and a/c was created
\* under the configured root parent
C12_Witness ==
    /\ Len(imp_attempts) >= 2
    /\ \E j, k \in 1..Len(imp_attempts) :
         /\ j < k
         /\ imp_attempts[j].path = <<"a">> /\ ~imp_attempts[j].ok
         /\ imp_attempts[k].path = <<"a", "c">> /\ imp_attempts[k].ok
         /\ imp_attempts[k].parent_id = ParentPageId

\* the extent of the ordering (C12): the parent is attempted first, and the child
\* is created under it whenever the parent's creation returned
C12_UnderCreatedParent ==
    /\ ParentAttemptedFirst
    /\ \A k \in ChildAttempts :
         (\E j \in 1..(k - 1) :
             imp_attempts[j].path = ParentOf(imp_attempts[k].path) /\ imp_attempts[j].ok)
           => imp_attempts[k].parent_id = CreatedId(ParentOf(imp_attempts[k].path))


---------------------------------------------------------------------------
(* NotionImporter.create_page *)

MaxBlocks == 250

\* the most blocks the importer puts in one call
BlockLimit == 100

\* blocks[:100]
FirstBlocks(blocks) ==
    SubSeq(blocks, 1, IF Len(blocks) < BlockLimit THEN Len(blocks) ELSE BlockLimit)

\* a slice that drops one block more than were sent
RestBlocks_DropsOne(blocks) == SubSeq(blocks, BlockLimit + 2, Len(blocks))

\* blocks[100:]
RestBlocks(blocks) == SubSeq(blocks, BlockLimit + 1, Len(blocks))

\* the block lists of the model: the blocks are told apart by their position
InitCreate ==
    /\ cp_pc = "start"
    /\ content_blocks \in {[k \in 1..n |-> k] : n \in 0..MaxBlocks}
    /\ remaining_blocks = <<>>
    /\ cp_calls = <<>>

\* lines 662-683: the page is created with the first blocks
PagesCreate ==
    /\ cp_pc = "start"
    /\ cp_calls' = Append(cp_calls, [op |-> "create", children |-> FirstBlocks(content_blocks)])
    /\ remaining_blocks' = RestBlocks(content_blocks)
    /\ cp_pc' = "append"
    /\ UNCHANGED <<notCreate, content_blocks>>

\* line 681: the service refuses the page and client.pages.create raises
PagesCreateFails ==
    /\ cp_pc = "start"
    /\ remaining_blocks' = RestBlocks(content_blocks)
    /\ cp_pc' = "raised"
    /\ UNCHANGED <<notCreate, content_blocks, cp_calls>>

\* lines 686-690: the next blocks are appended to the page
ChildrenAppend ==
    /\ cp_pc = "append"
    /\ remaining_blocks # <<>>
    /\ cp_calls' = Append(cp_calls, [op |-> "append", children |-> FirstBlocks(remaining_blocks)])
    /\ remaining_blocks' = RestBlocks(remaining_blocks)
    /\ UNCHANGED <<notCreate, cp_pc, content_blocks>>

\* line 690: the service refuses the blocks and client.blocks.children.append raises
ChildrenAppendFails ==
    /\ cp_pc = "append"
    /\ remaining_blocks # <<>>
    /\ remaining_blocks' = RestBlocks(remaining_blocks)
    /\ cp_pc' = "raised"
    /\ UNCHANGED <<notCreate, content_blocks, cp_calls>>

\* lines 686 and 692: nothing remains, the identifier of the page is returned
ReturnPageId ==
    /\ cp_pc = "append"
    /\ remaining_blocks = <<>>
    /\ cp_pc' = "returned"
    /\ UNCHANGED <<notCreate, content_blocks, remaining_blocks, cp_calls>>

NextCreate ==
    \/ PagesCreate
    \/ PagesCreateFails
    \/ ChildrenAppend
    \/ ChildrenAppendFails
    \/ ReturnPageId

CreateInit == InitCreate /\ IdleExcept("create")

CreateSpec == CreateInit /\ [][NextCreate]_vars

---------------------------------------------------------------------------
(* Claims about create_page *)

RECURSIVE ChildrenOfCalls(_)
\* the blocks of these calls, in call order
ChildrenOfCalls(sent) ==
    IF sent = <<>> THEN <<>> ELSE Head(sent).children \o ChildrenOfCalls(Tail(sent))

\* ceil(n / 100)
CallsNeeded(n) == (n + 99) \div 100

\* C13: for a block list of any length n, create_page issues one create call
\* followed by append calls; every call carries at most 100 blocks and every call
\* but the last exactly 100, there are max(1, ceil(n/100)) calls, and the blocks
\* of the calls in call order are the original list.
C13_ChunkedCalls ==
    cp_pc = "returned"
        => /\ Len(cp_calls) = (IF Len(content_blocks) = 0 THEN 1
                               ELSE CallsNeeded(Len(content_blocks)))
           /\ cp_calls[1].op = "create"
           /\ \A k \in 2..Len(cp_calls) : cp_calls[k].op = "append"
           /\ \A k \in 1..Len(cp_calls) : Len(cp_calls[k].children) <= 100
           /\ \A k \in 1..(Len(cp_calls) - 1) : Len(cp_calls[k].children) = 100
           /\ ChildrenOfCalls(cp_calls) = content_blocks

\* create_page returned after a create call and two append calls, the last of
\* them with fewer than 100 blocks
C13_Witness ==
    /\ cp_pc = "returned"
    /\ Len(content_blocks) > 200
    /\ Len(cp_calls) = 3
    /\ Len(cp_calls[3].children) \in 1..99

---------------------------------------------------------------------------
(* Claims about the references the export follows *)

\* the pages that the remote graph references by link_to_page blocks only: no
\* record map holds their page block, no collection holds them, none is the root
LinkedOnly ==
    {t \in CanonPages :
        /\ t # NormalizedId[root_url].id
        /\ \E e \in remote : e.kind = "link" /\ e.dst = t
        /\ \A e \in remote : e.kind \in {"child", "nested", "member"} => Canon(e.dst) # t}

C15_DirectoryByKind ==
    \A k \in 2..Len(stack) :
        stack[k].page_dir # <<>>
          => /\ Len(stack[k].page_dir) = Len(stack[k].parent_dir) + 1
             /\ IF stack[k].parent_dir = <<>>
                THEN [src |-> Canon(stack[k - 1].page_id), kind |-> "member",
                      dst |-> stack[k].page_id] \in remote
                ELSE /\ stack[k].parent_dir = stack[k - 1].page_dir
                     /\ [src |-> Canon(stack[k - 1].page_id), kind |-> "child",
                         dst |-> stack[k].page_id] \in remote

\* a reachable state C15 fails in: the record map of the root holds the page block
\* of a page that is no direct child of the root, and that page was written under
\* the root's directory
C15_Witness ==
    /\ Len(stack) = 2
    /\ stack[2].page_id = IdB
    /\ Len(stack[2].page_dir) = 2
    /\ remote = {[src |-> IdR, kind |-> "child", dst |-> IdA],
                 [src |-> IdR, kind |-> "nested", dst |-> IdB]}

\* the extent of the directories (C15): a collection member is written directly
\* under the output directory, and whatever page block the record map of P holds
\* is written under P's directory
C15_MembersAreFlat ==
    \A k \in 2..Len(stack) :
        LET from == Canon(stack[k - 1].page_id)
            to == stack[k].page_id
        IN  (/\ stack[k].page_dir # <<>>
             /\ [src |-> from, kind |-> "member", dst |-> to] \in remote
             /\ \A e \in remote : (e.src = from /\ Canon(e.dst) = Canon(to))
                                     => e.kind \notin {"child", "nested"})
              => Len(stack[k].page_dir) = 1


---------------------------------------------------------------------------
(* The images of an imported page: _image_block, _upload_file, CloudflareR2Uploader.upload *)

MaxImages == 2

RECURSIVE Replace(_, _, _)
\* str.replace(old, new)
Replace(s, old, new) ==
    LET k == Find(s, old)
    IN  IF k = 0 THEN s
        ELSE Sub(s, 1, k - 1) \o new \o Replace(From(s, k + Len(old)), old, new)

\* Path(...).name of a relative path
NameOf(path) == AfterLast(path, "/")

\* the uploaders of the model: none, and Cloudflare R2 with public_url.rstrip("/")
\* or None ("") as its base
NoUploader == [kind |-> "none", public_url_base |-> ""]
R2Uploader(public_url) == [kind |-> "r2", public_url_base |-> StripRight(public_url, "/")]
Uploaders ==
    {NoUploader, R2Uploader(""), R2Uploader("https://cdn.example.com/"),
     R2Uploader("https://pub.r2.dev")}

ImageSources == {"assets/a.png", "assets/b.jpg", "c.gif", "http://x/y.png", "data:image/png;base64,AA"}

\* CloudflareR2Uploader.upload(file_path): what it returns ("" for None), the key
\* it stores, and why it stored none
Upload(uploader, file_path, exists, put_ok) ==
    LET key == "notion-import/" \o NameOf(file_path)
    IN  IF ~exists THEN [url |-> "", stored |-> {}, outcome |-> "no file"]
        ELSE IF uploader.public_url_base = ""
        THEN [url |-> "", stored |-> {}, outcome |-> "no public url"]
        ELSE IF ~put_ok THEN [url |-> "", stored |-> {}, outcome |-> "put failed"]
        ELSE [url |-> uploader.public_url_base \o "/" \o key, stored |-> {key},
              outcome |-> "stored"]

\* NotionImporter._upload_file(file_path): the uploads it makes and the URL it returns
UploadFile(uploader, file_path, exists, put_ok) ==
    IF uploader.kind = "none" THEN [url |-> "", uploads |-> <<>>]
    ELSE LET up == Upload(uploader, file_path, exists, put_ok)
         IN  [url |-> up.url,
              uploads |-> <<[file |-> file_path, outcome |-> up.outcome, url |-> up.url,
                             stored |-> up.stored]>>]

\* NotionImporter._image_block(src, alt_text, assets_dir): the block it returns
\* (<<>> for None) and the uploads it makes
ImageBlockOf(uploader, src, exists, put_ok) ==
    LET file_path == "assets/" \o Replace(src, "assets/", "")
        up == UploadFile(uploader, file_path, exists, put_ok)
    IN  IF StartsWith(src, "http") THEN [blocks |-> ImageBlock(src), uploads |-> <<>>]
        ELSE IF StartsWith(src, "data:") THEN [blocks |-> <<>>, uploads |-> <<>>]
        ELSE IF ~exists THEN [blocks |-> <<>>, uploads |-> <<>>]
        ELSE [blocks |-> IF up.url # ""
                         THEN <<[ApiBlock("image", <<>>, <<>>) EXCEPT !.url = up.url]>>
                         ELSE <<>>,
              uploads |-> up.uploads]

InitImage ==
    /\ img_pc = "parse"
    /\ file_uploader \in Uploaders
    /\ img_sources \in UNION {[1..n -> ImageSources] : n \in 1..MaxImages}
    /\ img_blocks = <<>>
    /\ s3_objects = {}
    /\ img_uploads = <<>>
    /\ img_page = <<>>

\* _parse_markdown, lines 246-254: the next image line; the file is there or not,
\* and put_object succeeds or raises
ParseImageLine ==
    /\ img_pc = "parse"
    /\ img_sources # <<>>
    /\ \E exists \in BOOLEAN, put_ok \in BOOLEAN :
         LET made == ImageBlockOf(file_uploader, Head(img_sources), exists, put_ok)
         IN  /\ img_blocks' = img_blocks \o made.blocks
             /\ img_uploads' = img_uploads \o made.uploads
             /\ s3_objects' = s3_objects \cup UNION {made.uploads[k].stored :
                                                       k \in 1..Len(made.uploads)}
    /\ img_sources' = Tail(img_sources)
    /\ UNCHANGED <<notImage, img_pc, file_uploader, img_page>>

\* import_directory, lines 744-751: the page is created with the blocks parsed
CreateImagePage ==
    /\ img_pc = "parse"
    /\ img_sources = <<>>
    /\ img_page' = img_blocks
    /\ img_pc' = "created"
    /\ UNCHANGED <<notImage, file_uploader, img_sources, img_blocks, s3_objects, img_uploads>>

NextImage ==
    \/ ParseImageLine
    \/ CreateImagePage

ImageInit == InitImage /\ IdleExcept("image")

ImageSpec == ImageInit /\ [][NextImage]_vars

---------------------------------------------------------------------------
(* Claims about uploads *)

\* the uploads refused because no public base URL is configured
Refused == {k \in 1..Len(img_uploads) : img_uploads[k].outcome = "no public url"}

\* C16: when no public base URL is configured, upload never returns a URL and
\* never stores an object, and it stops the caller: the import does not go on to
\* create a page from which the image is missing.
C16_UploadFailsLoudly ==
    /\ \A k \in Refused : img_uploads[k].url = "" /\ img_uploads[k].stored = {}
    /\ (file_uploader.kind = "r2" /\ file_uploader.public_url_base = "") => s3_objects = {}
    /\ Refused # {} => img_pc # "created"

\* a reachable state C16 fails in: the upload of assets/a.png was refused for want
\* of a public URL, and the page was created without the image
C16_Witness ==
    /\ img_pc = "created"
    /\ Refused # {}
    /\ img_uploads[1].file = "assets/a.png"
    /\ img_page = <<>>
    /\ s3_objects = {}

\* the extent of the refusal (C16): no URL is returned and nothing is stored
C16_NothingStored ==
    /\ \A k \in Refused : img_uploads[k].url = "" /\ img_uploads[k].stored = {}
    /\ (file_uploader.kind = "r2" /\ file_uploader.public_url_base = "") => s3_objects = {}

---------------------------------------------------------------------------
(* Claims about the collection query *)

\* the queries that failed: every response but the members
FailedQueries == {k \in 1..Len(queries) : queries[k].response # "members"}

\* C17: any failure of the collection query (a response other than 200, a network
\* failure, a response without the expected structure) makes query_collection
\* return an empty list and raise nothing; the page that holds the database stays
\* exported and the export goes on.
C17_FailedQueryIsEmpty ==
    \A k \in FailedQueries :
        /\ ~queries[k].raised
        /\ queries[k].ids = <<>>
        /\ writes[queries[k].page_id] = 1
        /\ (k = Len(queries) => status # "crashed")

\* a reachable state C17 fails in: the network gave no answer to the query of the
\* root's collection, and the run ended there
C17_Witness ==
    /\ status = "crashed"
    /\ Len(queries) = 1
    /\ queries[1].response = "no answer"
    /\ queries[1].raised
    /\ writes[queries[1].page_id] = 1

\* the extent of the tolerance (C17): a status other than 200 and a JSON object
\* without "result" give an empty list, and the export goes on
C17_StatusFailureIsEmpty ==
    \A k \in FailedQueries :
        queries[k].response \in {"status 500", "no result"}
          => /\ ~queries[k].raised
             /\ queries[k].ids = <<>>
             /\ writes[queries[k].page_id] = 1
             /\ (k = Len(queries) => status # "crashed")

---------------------------------------------------------------------------
(* The files of an exported page: _download_file, _sign_s3_url, _resolve_attachment_url *)

MaxRefs == 2

\* the host pattern of the secure storage, line 430
SecureHost == "prod-files-secure.s3"

PlainUrl == "https://example.com/a.png"
SecureUrl == "https://prod-files-secure.s3.us-west-2.amazonaws.com/s/f/a.png"
AttachmentUrl == "attachment:f:a.png"

\* the locators of the model; the attachment names the object of SecureUrl
Locators == {"", PlainUrl, SecureUrl, AttachmentUrl}

\* the page directories, and the identifiers a block carries ("" for None)
PageDirs == {"alpha", "beta"}
BlockSpaceIds == {[block_id |-> "b", space_id |-> "s"], [block_id |-> "", space_id |-> ""]}

\* the references to files met while the pages are rendered
References ==
    {[url |-> u, page_dir |-> d, block_id |-> i.block_id, space_id |-> i.space_id] :
        u \in Locators, d \in PageDirs, i \in BlockSpaceIds}

\* the signatures the service may put on a URL: they change from one request to the next
Signatures == {"1", "2"}

\* what getSignedFileUrls answers: a signed URL, a status other than 200, no
\* answer at all (session.post raises), a list without a URL
SignAnswers == Signatures \cup {"status 500", "no answer", "none"}

\* what the GET of a file answers: 200, another status, a RequestException
GetAnswers == {"200", "404", "error"}

\* the URL the service returns for a URL and a signature
SignedUrl(url, signature) == BeforeFirst(url, "?") \o "?sig=" \o signature

\* lines 400-408 and 379-387: the signing request; RuntimeError (a status other
\* than 200) is caught and gives None (""), the exceptions of session.post are not
SignedFileUrl(url, answer) ==
    CASE answer = "no answer" -> [raised |-> TRUE, signed_url |-> ""]
      [] answer \in {"status 500", "none"} -> [raised |-> FALSE, signed_url |-> ""]
      [] answer \in Signatures -> [raised |-> FALSE, signed_url |-> SignedUrl(url, answer)]

\* _resolve_attachment_url, lines 358-370: the storage URL of attachment:file_id:filename,
\* "" when the locator has fewer than three parts
S3Url(url, space_id) ==
    LET rest == From(url, Len("attachment:") + 1)
        k == Find(rest, ":")
    IN  IF ~StartsWith(url, "attachment:") \/ k = 0 THEN ""
        ELSE "https://prod-files-secure.s3.us-west-2.amazonaws.com/" \o space_id
                 \o "/" \o Sub(rest, 1, k - 1) \o "/" \o From(rest, k + 1)

\* a request of the log
Request(call, kind, url, answer) == [call |-> call, kind |-> kind, url |-> url, answer |-> answer]

\* hashlib.md5(url).hexdigest()[:8] of the URLs of the model
UrlHash(url) ==
    CASE url = PlainUrl -> "8c11d92f"
      [] url = SecureUrl -> "d47b1e57"
      [] url = SignedUrl(SecureUrl, "1") -> "7ecf42f3"
      [] url = SignedUrl(SecureUrl, "2") -> "b1ea5ea9"

\* urlparse(url).path: what follows the host, up to the query
UrlPath(url) ==
    LET rest == From(url, Find(url, "://") + 3)
        k == Find(rest, "/")
    IN  IF k = 0 THEN "" ELSE BeforeFirst(From(rest, k), "?")

\* lines 442-450: the base name of the path, "file" when it is empty, with the hash
\* of the URL put before the extension
FileName(url) ==
    LET base == AfterLast(UrlPath(url), "/")
        base_name == IF base = "" THEN "file" ELSE base
        dot == FindLast(base_name, ".")
        stem == IF dot <= 1 THEN base_name ELSE Sub(base_name, 1, dot - 1)
        ext == IF dot <= 1 THEN "" ELSE From(base_name, dot)
    IN  stem \o "_" \o UrlHash(url) \o ext

\* os.path.join("assets", name)
AssetPath(name) == "assets/" \o name

IsHttp(url) == StartsWith(url, "http://") \/ StartsWith(url, "https://")

\* no call under way
NoRef == [url |-> "", page_dir |-> "", block_id |-> "", space_id |-> ""]

\* the number of the call under way or about to start
ThisCall == Len(dl_returns) + 1

\* the end of a call: what it returned, or that it raised
CallEnded(ref, resolved, returned, raised) ==
    [url |-> ref.url, page_dir |-> ref.page_dir, block_id |-> ref.block_id,
     space_id |-> ref.space_id, resolved |-> resolved, returned |-> returned, raised |-> raised]

\* lines 423-424: the locator is an attachment and the block has its identifiers
NeedsResolving(ref) ==
    /\ StartsWith(ref.url, "attachment:")
    /\ ref.block_id # "" /\ ref.space_id # ""

InitDownload ==
    /\ dl_pc = "call"
    /\ dl_ref = NoRef
    /\ dl_url = ""
    /\ dl_files = {}
    /\ dl_requests = <<>>
    /\ dl_returns = <<>>

\* lines 420-421: no URL
ReturnEmpty ==
    /\ dl_pc = "call" /\ Len(dl_returns) < MaxRefs
    /\ \E ref \in References :
         /\ ref.url = ""
         /\ dl_returns' = Append(dl_returns, CallEnded(ref, "", "", FALSE))
    /\ UNCHANGED <<notDownload, dl_pc, dl_ref, dl_url, dl_files, dl_requests>>

\* lines 423-427 with _resolve_attachment_url: the attachment is exchanged for a
\* signed URL; None leaves url as it was; an exception of session.post leaves
\* _download_file, _render_block and _export_page and ends the run
ResolveAttachmentUrl ==
    /\ dl_pc = "call" /\ Len(dl_returns) < MaxRefs
    /\ \E ref \in References, answer \in SignAnswers :
         LET s3_url == S3Url(ref.url, ref.space_id)
             signed == SignedFileUrl(s3_url, answer)
         IN  /\ ref.url # "" /\ NeedsResolving(ref) /\ s3_url # ""
             /\ dl_requests' = Append(dl_requests, Request(ThisCall, "sign", s3_url, answer))
             /\ IF signed.raised
                THEN /\ dl_pc' = "crashed" /\ dl_ref' = NoRef /\ dl_url' = ""
                     /\ dl_returns' = Append(dl_returns, CallEnded(ref, ref.url, "", TRUE))
                ELSE /\ dl_pc' = "sign" /\ dl_ref' = ref
                     /\ dl_url' = IF signed.signed_url # "" THEN signed.signed_url ELSE ref.url
                     /\ dl_returns' = dl_returns
    /\ UNCHANGED <<notDownload, dl_files>>

\* lines 423-424 and 358-366: nothing to resolve, or no three parts in the locator
KeepLocator ==
    /\ dl_pc = "call" /\ Len(dl_returns) < MaxRefs
    /\ \E ref \in References :
         /\ ref.url # ""
         /\ ~NeedsResolving(ref) \/ S3Url(ref.url, ref.space_id) = ""
         /\ dl_pc' = "sign" /\ dl_ref' = ref /\ dl_url' = ref.url
    /\ UNCHANGED <<notDownload, dl_files, dl_requests, dl_returns>>

\* lines 429-433 with _sign_s3_url: a URL of the secure storage is signed when
\* there is a block id; None leaves url as it was
SignS3Url ==
    /\ dl_pc = "sign"
    /\ Contains(dl_url, SecureHost) /\ dl_ref.block_id # ""
    /\ \E answer \in SignAnswers :
         LET signed == SignedFileUrl(dl_url, answer)
         IN  /\ dl_requests' = Append(dl_requests, Request(ThisCall, "sign", dl_url, answer))
             /\ IF signed.raised
                THEN /\ dl_pc' = "crashed" /\ dl_ref' = NoRef /\ dl_url' = ""
                     /\ dl_returns' = Append(dl_returns, CallEnded(dl_ref, dl_url, "", TRUE))
                ELSE /\ dl_pc' = "fetch" /\ dl_ref' = dl_ref
                     /\ dl_url' = IF signed.signed_url # "" THEN signed.signed_url ELSE dl_url
                     /\ dl_returns' = dl_returns
    /\ UNCHANGED <<notDownload, dl_files>>

\* line 430: not the secure storage, or no block id: no signing
KeepUnsigned ==
    /\ dl_pc = "sign"
    /\ ~(Contains(dl_url, SecureHost) /\ dl_ref.block_id # "")
    /\ dl_pc' = "fetch"
    /\ UNCHANGED <<notDownload, dl_ref, dl_url, dl_files, dl_requests, dl_returns>>

\* lines 435-437: no http(s) URL: it is returned as it is
ReturnUnresolved ==
    /\ dl_pc = "fetch"
    /\ ~IsHttp(dl_url)
    /\ dl_returns' = Append(dl_returns, CallEnded(dl_ref, dl_url, dl_url, FALSE))
    /\ dl_pc' = "call" /\ dl_ref' = NoRef /\ dl_url' = ""
    /\ UNCHANGED <<notDownload, dl_files, dl_requests>>

\* lines 439-454: the file of that name is there: no request
ReturnExisting ==
    /\ dl_pc = "fetch"
    /\ IsHttp(dl_url)
    /\ LET name == FileName(dl_url)
       IN  /\ [page_dir |-> dl_ref.page_dir, name |-> name] \in dl_files
           /\ dl_returns' = Append(dl_returns, CallEnded(dl_ref, dl_url, AssetPath(name), FALSE))
    /\ dl_pc' = "call" /\ dl_ref' = NoRef /\ dl_url' = ""
    /\ UNCHANGED <<notDownload, dl_files, dl_requests>>

\* lines 456-469: the file is fetched; 200 stores it, another status and a
\* RequestException return url
GetFile ==
    /\ dl_pc = "fetch"
    /\ IsHttp(dl_url)
    /\ LET name == FileName(dl_url)
           out_path == [page_dir |-> dl_ref.page_dir, name |-> name]
       IN  /\ out_path \notin dl_files
           /\ \E get_answer \in GetAnswers :
                /\ dl_requests' = Append(dl_requests, Request(ThisCall, "get", dl_url, get_answer))
                /\ IF get_answer = "200"
                   THEN /\ dl_files' = dl_files \cup {out_path}
                        /\ dl_returns' = Append(dl_returns,
                                              CallEnded(dl_ref, dl_url, AssetPath(name), FALSE))
                   ELSE /\ dl_files' = dl_files
                        /\ dl_returns' = Append(dl_returns, CallEnded(dl_ref, dl_url, dl_url, FALSE))
    /\ dl_pc' = "call" /\ dl_ref' = NoRef /\ dl_url' = ""
    /\ UNCHANGED notDownload

NextDownload ==
    \/ ReturnEmpty
    \/ ResolveAttachmentUrl
    \/ KeepLocator
    \/ SignS3Url
    \/ KeepUnsigned
    \/ ReturnUnresolved
    \/ ReturnExisting
    \/ GetFile

DownloadInit == InitDownload /\ IdleExcept("download")

DownloadSpec == DownloadInit /\ [][NextDownload]_vars

---------------------------------------------------------------------------
(* Claims about downloads *)

\* the positions in the log of the requests of one call
RequestsOf(call) == {k \in 1..Len(dl_requests) : dl_requests[k].call = call}
GetsOf(call) == {k \in RequestsOf(call) : dl_requests[k].kind = "get"}
SignedIn(call) ==
    {k \in RequestsOf(call) : dl_requests[k].kind = "sign" /\ dl_requests[k].answer \in Signatures}

\* the result is a path below assets/ of the page directory
IsLocal(returned) == StartsWith(returned, "assets/")

\* C18: _download_file never raises for a failed resolution or download, and whenever
\* it returns no local path it returns the locator it was given, unchanged, also when
\* the signing succeeded and the download then failed.
C18_NeverRaisesKeepsLocator ==
    \A n \in 1..Len(dl_returns) :
        /\ ~dl_returns[n].raised
        /\ IsLocal(dl_returns[n].returned) \/ dl_returns[n].returned = dl_returns[n].url

\* a reachable state C18 fails in: the URL was signed, the GET of the signed URL was
\* answered 404, and the call returned the signed URL, not the locator
C18_Witness ==
    \E n \in 1..Len(dl_returns) :
        /\ dl_returns[n].url = SecureUrl
        /\ ~dl_returns[n].raised
        /\ SignedIn(n) # {}
        /\ \E k \in GetsOf(n) : dl_requests[k].answer = "404"
        /\ dl_returns[n].returned = dl_returns[n].resolved
        /\ dl_returns[n].returned # dl_returns[n].url

\* the extent of C18: a call in which no signing request was made never raises and
\* returns a local path or the locator
C18_UnsignedKeepsLocator ==
    \A n \in 1..Len(dl_returns) :
        (RequestsOf(n) \ GetsOf(n) = {})
          => /\ ~dl_returns[n].raised
             /\ IsLocal(dl_returns[n].returned) \/ dl_returns[n].returned = dl_returns[n].url

\* C19: _download_file fetches no URL of the secure storage host unless a signing
\* request for it succeeded before, in the same call; when the signing fails or
\* there is no block id, the unsigned URL is not fetched.
C19_SignedBeforeFetch ==
    \A k \in 1..Len(dl_requests) :
        (dl_requests[k].kind = "get" /\ Contains(dl_requests[k].url, SecureHost))
          => \E j \in SignedIn(dl_requests[k].call) :
                /\ j < k
                /\ dl_requests[k].url = SignedUrl(dl_requests[j].url, dl_requests[j].answer)

\* a reachable state C19 fails in: the signing request was answered with status 500
\* and the unsigned URL was fetched
C19_Witness ==
    \E k \in 1..Len(dl_requests) :
        /\ dl_requests[k].kind = "get"
        /\ dl_requests[k].url = SecureUrl
        /\ SignedIn(dl_requests[k].call) = {}
        /\ \E j \in RequestsOf(dl_requests[k].call) :
              j < k /\ dl_requests[j].kind = "sign" /\ dl_requests[j].answer = "status 500"

\* the extent of C19: after a signing request of the call succeeded, the URL that is
\* fetched is a signed one
C19_SignedUrlIsFetched ==
    \A k \in 1..Len(dl_requests) :
        (dl_requests[k].kind = "get" /\ SignedIn(dl_requests[k].call) # {})
          => \E j \in SignedIn(dl_requests[k].call) :
                dl_requests[k].url = SignedUrl(dl_requests[j].url, dl_requests[j].answer)

\* the same reference met again: the same locator and identifiers, on any page
SameReference(i, j) ==
    /\ dl_returns[i].url # ""
    /\ dl_returns[i].url = dl_returns[j].url
    /\ dl_returns[i].block_id = dl_returns[j].block_id
    /\ dl_returns[i].space_id = dl_returns[j].space_id

\* the call fetched the file and stored it
Downloaded(n) == \E k \in GetsOf(n) : dl_requests[k].answer = "200"

\* C20: within one run two references to the same remote object cause at most one
\* download: after the first was stored, the second call finds the file and returns
\* the same relative path without a GET, also when the references need signing and
\* when they are on different pages.
C20_OneDownloadPerObject ==
    \A i \in 1..Len(dl_returns) : \A j \in 1..Len(dl_returns) :
        (i < j /\ SameReference(i, j) /\ Downloaded(i) /\ ~dl_returns[j].raised)
          => /\ GetsOf(j) = {}
             /\ dl_returns[j].returned = dl_returns[i].returned

\* a reachable state C20 fails in: the same plain URL on two pages, fetched twice
C20_Witness ==
    /\ Len(dl_returns) = 2
    /\ dl_returns[1].url = PlainUrl /\ dl_returns[2].url = PlainUrl
    /\ dl_returns[1].page_dir # dl_returns[2].page_dir
    /\ Downloaded(1) /\ Downloaded(2)
    /\ Cardinality(dl_files) = 2

\* the extent of C20: on the same page, a reference that resolves to the same URL
\* as a stored one is not fetched again
C20_SamePageSameUrl ==
    \A i \in 1..Len(dl_returns) : \A j \in 1..Len(dl_returns) :
        (/\ i < j /\ Downloaded(i) /\ ~dl_returns[j].raised
         /\ dl_returns[i].page_dir = dl_returns[j].page_dir
         /\ dl_returns[i].resolved = dl_returns[j].resolved)
          => /\ GetsOf(j) = {}
             /\ dl_returns[j].returned = dl_returns[i].returned

---------------------------------------------------------------------------
(* Claims about the delay between remote calls *)

\* C21: between any two consecutive remote calls of a run the fixed delay is
\* executed: after every remote call, successful or failed, and in particular
\* between a failed loadPageChunk and the loadCachedPageChunk fallback.
C21_DelayBetweenCalls ==
    \A k \in 1..(Len(requests) - 1) : delays[k]

\* a reachable state C21 fails in: loadPageChunk failed and the fallback was
\* posted with no delay in between
C21_Witness ==
    \E k \in 1..(Len(requests) - 1) :
        /\ requests[k].endpoint = "loadPageChunk"
        /\ requests[k + 1].endpoint = "loadCachedPageChunk"
        /\ ~delays[k]

\* the extent of C21: the delay ran after every post that returned data, so
\* between a chunk and the request of the next one
C21_DelayAfterSuccess ==
    /\ Len(delays) = Len(requests)
    /\ \A i \in 1..Len(responses) : delays[responses[i].request]
    /\ \A k \in 1..(Len(requests) - 1) :
          requests[k + 1].endpoint = "loadPageChunk" => delays[k]

---------------------------------------------------------------------------
(* Claims about a failed fetch during an export *)

\* the pages of the graph no call of _export_page was made for
NeverCalled == {p \in Reachable(remote) : \A id \in RawIds : Canon(id) = p => calls[id] = 0}

\* C22: a non-success response during an export never aborts the whole export: when
\* the fetch of one page's record map fails (loadPageChunk and the fallback), the
\* page is skipped and the remaining pages of the tree are still exported.
C22_FailedFetchIsSkipped == failed_fetches # {} => status # "crashed"

\* a reachable state C22 fails in: the root was written, the fetch of one of its
\* child pages failed, and the run ended with another page it never called
C22_Witness ==
    /\ status = "crashed"
    /\ writes[IdR] = 1
    /\ \E id \in failed_fetches : Canon(id) # IdR
    /\ NeverCalled # {}

---------------------------------------------------------------------------
(* Claims about a page whose creation fails *)

\* the paths create_page returned for, and those it raised for
PathsCreated == {imp_attempts[k].path : k \in {j \in 1..Len(imp_attempts) : imp_attempts[j].ok}}
PathsFailed == {imp_attempts[k].path : k \in {j \in 1..Len(imp_attempts) : ~imp_attempts[j].ok}}

\* a failure records nothing, and the loop goes on to every page that remains
FailureSkipsPage ==
    /\ DOMAIN created_pages = {Str(rel_path) : rel_path \in PathsCreated}
    /\ \A rel_path \in imp_dirs : Cardinality(AttemptsOf(rel_path)) <= 1
    /\ (imp_pc = "loop" /\ imp_pages = <<>>)
          => \A rel_path \in imp_dirs : Cardinality(AttemptsOf(rel_path)) = 1

\* C23: when create_page fails for a page, the page is skipped and the run goes on
\* with every remaining page; the failure leaves the map of paths to remote
\* identifiers unchanged, and the map holds a path exactly when a remote page
\* exists for it, also when an append failed after the create call succeeded.
C23_MapMatchesRemotePages ==
    /\ FailureSkipsPage
    /\ DOMAIN created_pages = {Str(rel_path) : rel_path \in remote_pages}

\* a reachable state C23 fails in: the run is over, a page was made in the
\* workspace for a path whose create_page raised in an append, the map has no entry
\* for it, and a page after it was created
C23_Witness ==
    /\ imp_pc = "loop" /\ imp_pages = <<>>
    /\ \E k \in 1..Len(imp_attempts) :
          /\ ~imp_attempts[k].ok
          /\ imp_attempts[k].path \in remote_pages
          /\ Str(imp_attempts[k].path) \notin DOMAIN created_pages
          /\ \E j \in (k + 1)..Len(imp_attempts) : imp_attempts[j].ok

\* the extent of C23: the page is skipped, the map is left as it was and every
\* remaining page is attempted; every path of the map has a remote page
C23_FailureSkipsPage ==
    /\ FailureSkipsPage
    /\ \A rel_path \in imp_dirs : Str(rel_path) \in DOMAIN created_pages => rel_path \in remote_pages

---------------------------------------------------------------------------
(* _parse_markdown on lines of every kind *)

MaxLines == 3

\* one line for every rule of the dispatch, well formed and not
MarkdownLines ==
    {"", "text", "# Title", "---", "- item", "1. first", "> quote", Fence,
     "<table><td>a</td></table>",
     "<details>", "<summary>S</summary>", "</details>",
     "![pic](http://x/y.png)", "![broken", "![pic](data:image/png;base64,AA)",
     "[" \o MisreadPlayMark \o " v](https://youtu.be/w)", "[" \o MisreadPlayMark \o " broken"}

\* the texts of at most MaxLines of these lines
MarkdownTexts == {Join(ls, NL) : ls \in UNION {[1..n -> MarkdownLines] : n \in 1..MaxLines}}

InitParse ==
    /\ pm_pc = "markdown"
    /\ pm_markdown \in MarkdownTexts
    /\ pm_blocks = <<>>

\* _parse_markdown(md_content, assets_dir)
ParseMarkdownText ==
    /\ pm_pc = "markdown"
    /\ pm_blocks' = ParseMarkdown(pm_markdown)
    /\ pm_pc' = "parsed"
    /\ UNCHANGED <<notParse, pm_markdown>>

NextParse == ParseMarkdownText

ParseInit == InitParse /\ IdleExcept("parse")

ParseSpec == ParseInit /\ [][NextParse]_vars

---------------------------------------------------------------------------
(* Claims about paragraphs and malformed lines *)

\* the lines of the text that was parsed
ParsedLines == Split(pm_markdown, NL)

\* the line begins a video or audio link
MarkerLine(stripped) ==
    StartsWith(stripped, "[" \o MisreadPlayMark) \/ StartsWith(stripped, "[" \o MisreadSpeakerMark)

\* one of the dispatch rules 1 to 9 takes the line: heading, divider, bulleted or
\* numbered item, quote, code fence, table, details, image, video or audio link
Dispatched(line) ==
    LET stripped == Strip(line)
    IN  \/ StartsWith(line, "# ") \/ StartsWith(line, "## ") \/ StartsWith(line, "### ")
        \/ stripped = "---"
        \/ StartsWith(stripped, "- ")
        \/ NumberedMatch(line) # 0
        \/ StartsWith(line, "> ")
        \/ StartsWith(line, Fence)
        \/ StartsWith(stripped, "<table>")
        \/ StartsWith(stripped, "<details>")
        \/ StartsWith(stripped, "![")
        \/ MarkerLine(stripped)

\* the line opens a paragraph: it is not blank and no rule takes it
OpensParagraph(line) == Strip(line) # "" /\ ~Dispatched(line) /\ ~LinkLine(Strip(line))

RECURSIVE StopsAtDispatched(_, _)
\* the last line of the paragraph that starts at line i, when it stops at the first
\* line that is blank or that a rule takes
StopsAtDispatched(lines, i) ==
    IF i + 1 <= Len(lines) /\ Strip(lines[i + 1]) # "" /\ ~Dispatched(lines[i + 1])
    THEN StopsAtDispatched(lines, i + 1) ELSE i

\* C24: an open paragraph stops absorbing at the first following line that is blank
\* or that one of the dispatch rules 1 to 9 matches; that line is not joined into
\* the paragraph but dispatched as its own block, and the absorbed lines are joined
\* with one space.
C24_ParagraphStopsAtRules ==
    (pm_pc = "parsed" /\ OpensParagraph(ParsedLines[1]))
      => LET last == StopsAtDispatched(ParsedLines, 1)
         IN  pm_blocks = <<TextBlock("paragraph", Join(SubSeq(ParsedLines, 1, last), " "))>>
                           \o ParseLines(ParsedLines, last + 1)

\* a reachable state C24 fails in: a numbered item after a paragraph line was joined
\* into the paragraph
C24_Witness ==
    /\ pm_pc = "parsed"
    /\ pm_markdown = "text\n1. first"
    /\ pm_blocks = <<TextBlock("paragraph", "text 1. first")>>

\* the extent of C24: the paragraph stops at a blank line and at a line that begins
\* with #, -, >, the fence or ![, which is then dispatched on its own
C24_StopsAtMarkedLines ==
    (/\ pm_pc = "parsed" /\ OpensParagraph(ParsedLines[1]) /\ Len(ParsedLines) >= 2
     /\ \/ Strip(ParsedLines[2]) = ""
        \/ \E mark \in {"#", "-", ">", Fence, "!["} : StartsWith(ParsedLines[2], mark))
      => pm_blocks = <<TextBlock("paragraph", ParsedLines[1])>> \o ParseLines(ParsedLines, 2)

RECURSIVE PlainContent(_)
\* the text of the segments of a rich text
PlainContent(rich_text) ==
    IF rich_text = <<>> THEN "" ELSE Head(rich_text).content \o PlainContent(Tail(rich_text))

\* the first line begins like a construct and does not match its full syntax: an
\* image without its (src), a video or audio link that is no complete link, a
\* details section with no summary
Malformed ==
    LET stripped == Strip(ParsedLines[1])
    IN  \/ StartsWith(stripped, "![") /\ ~ImageMatch(stripped).ok
        \/ MarkerLine(stripped) /\ ~LinkMatch(stripped).ok
        \/ StartsWith(stripped, "<details>") /\ ~Contains(pm_markdown, "<summary>")

\* C29: _parse_markdown drops no text on malformed constructs: a line that begins
\* like a construct and does not match its full syntax is emitted as plain
\* paragraph text; only a data-URI image is dropped.
C29_MalformedKeptAsText ==
    (pm_pc = "parsed" /\ Malformed)
      => /\ pm_blocks # <<>>
         /\ pm_blocks[1].type = "paragraph"
         /\ Contains(PlainContent(pm_blocks[1].rich_text), Strip(ParsedLines[1]))

\* a reachable state C29 fails in: an image line without its source gave no block
C29_Witness ==
    /\ pm_pc = "parsed"
    /\ pm_markdown = "![broken"
    /\ pm_blocks = <<>>

\* the extent of C29: a first line that opens a paragraph is kept as the text of a
\* paragraph block
C29_PlainLineKept ==
    (pm_pc = "parsed" /\ OpensParagraph(ParsedLines[1]))
      => /\ pm_blocks # <<>>
         /\ pm_blocks[1].type = "paragraph"
         /\ StartsWith(PlainContent(pm_blocks[1].rich_text), Strip(ParsedLines[1]))

---------------------------------------------------------------------------
(* Claims about what the renderer writes for the blocks of a page *)

\* the blocks below the page that the content lists lead to through live blocks
LiveChildren(ids) ==
    UNION {{doc_blocks[id].content[k] : k \in 1..Len(doc_blocks[id].content)} : id \in ids}
LiveIn(ids) == {id \in ids : id \in DOMAIN doc_blocks /\ doc_blocks[id].alive}
LiveBelow(ids) == LiveIn(ids \cup LiveChildren(LiveIn(ids)))
LiveBlocks == LiveBelow(LiveBelow(LiveBelow(LiveBelow({PageId})))) \ {PageId}

\* the block whose content list holds the block
ParentBlock(id) ==
    CHOOSE b \in DOMAIN doc_blocks :
        \E k \in 1..Len(doc_blocks[b].content) : doc_blocks[b].content[k] = id

\* the writes that carry the text of a block: made while the block was rendered, or
\* while its parent was (a callout writes the text of its first child)
Emitted(id) ==
    {p \in Positions(id) \cup Positions(ParentBlock(id)) :
        Contains(doc_out[p].text, RichTextToPlain(doc_blocks[id].title))}

\* the live blocks that have a text
TextBlocks == {id \in LiveBlocks : Strip(RichTextToPlain(doc_blocks[id].title)) # ""}

\* the callouts that take the text of a first child that has children of its own
HoistsParent ==
    \E c \in HoistingCallouts : doc_blocks[Head(doc_blocks[c].content)].content # <<>>

\* C25: rendering a page whose blocks form a tree writes the content of every live
\* block reachable from the page's child list exactly once: never twice, and never
\* zero times, the descendants of a hoisted callout child included.
C25_EveryBlockOnce ==
    doc_pc = "rendered" => \A id \in TextBlocks : Cardinality(Emitted(id)) = 1

\* a reachable state C25 fails in: the callout took the text of its live first
\* child, and the text of that child's own child was written nowhere
C25_Witness ==
    /\ doc_pc = "rendered"
    /\ \E c \in HoistingCallouts :
         LET first == Head(doc_blocks[c].content)
         IN  /\ doc_blocks[first].alive
             /\ doc_blocks[first].content # <<>>
             /\ Head(doc_blocks[first].content) \in TextBlocks
             /\ ~Contains(Written(doc_out), "inner")

\* the extent of C25: on a page where no callout takes the text of a child with
\* children, every live block with a text is written exactly once
C25_OnceWithoutHoistedParent ==
    (doc_pc = "rendered" /\ ~HoistsParent)
      => \A id \in TextBlocks : Cardinality(Emitted(id)) = 1

\* the column lists of the page, and those of their columns that have content
PageColumnLists ==
    {id \in LiveBlocks : doc_blocks[id].type = "column_list" /\ ParentBlock(id) = PageId}
NonEmptyColumns(id) ==
    {k \in ColumnsOf(id) : doc_blocks[doc_blocks[id].content[k]].content # <<>>}

\* the table wrapper was written for the column list
TableWritten(id) == \E p \in Positions(id) : Contains(doc_out[p].text, "<table>")

\* C26: the HTML table wrapper is written for a column_list exactly when more than
\* one of its columns has content; a column_list in which exactly one column is
\* non-empty is rendered inline with no table wrapper.
C26_TableForNonEmptyColumns ==
    doc_pc = "rendered"
      => \A id \in PageColumnLists : TableWritten(id) <=> Cardinality(NonEmptyColumns(id)) > 1

\* a reachable state C26 fails in: a column list of two columns, the second with no
\* children, was written as a table
C26_Witness ==
    /\ doc_pc = "rendered"
    /\ \E id \in PageColumnLists :
         /\ Cardinality(ColumnsOf(id)) = 2
         /\ Cardinality(NonEmptyColumns(id)) = 1
         /\ TableWritten(id)
         /\ Cardinality(CellsWritten(id)) = 2

\* the extent of C26: the wrapper is written exactly when the column list holds
\* more than one column block
C26_TableForColumnBlocks ==
    doc_pc = "rendered"
      => \A id \in PageColumnLists : TableWritten(id) <=> Cardinality(ColumnsOf(id)) > 1

---------------------------------------------------------------------------
(* Claims about the output file of each page *)

\* the identifiers whose index.md was written, and those whose index.md is still
\* the one on disk
WrittenIds == {id \in RawIds : writes[id] > 0}
OnDisk == {files[d] : d \in DOMAIN files}

\* C27: in one export run no page's index.md is overwritten after it was written:
\* two distinct page ids never map to the same output file, also when two siblings
\* have the same title or the same slug.
C27_NoFileOverwritten == WrittenIds \subseteq OnDisk

\* a reachable state C27 fails in: two different pages of the same slug were written
\* under the root, and the file of the first holds the second
C27_Witness ==
    /\ status = "done"
    /\ {IdA, IdB} \subseteq WrittenIds
    /\ SlugOf[IdA] = SlugOf[IdB]
    /\ IdA \notin OnDisk
    /\ \E d \in DOMAIN files : files[d] = IdB /\ Len(d) = 2

\* the extent of C27: a file is replaced only by a page of the same slug
C27_OverwrittenBySameSlug ==
    \A id \in WrittenIds :
        \E d \in DOMAIN files :
            /\ d[Len(d)] = SlugOf[Canon(id)]
            /\ SlugOf[Canon(files[d])] = SlugOf[Canon(id)]

---------------------------------------------------------------------------
(* Claims about the signing requests of a run *)

\* the signing requests of a call, and those of every call made for the same
\* locator and block as call i
SignsOf(call) == {k \in RequestsOf(call) : dl_requests[k].kind = "sign"}
SignsFor(i) == UNION {SignsOf(j) : j \in {n \in 1..Len(dl_returns) : SameReference(i, n)}}

\* C28: the resolution of an asset is remembered for the run: for a given locator
\* and owning block at most one signing request is sent during the whole export,
\* and later references reuse the first result.
C28_OneSigningPerLocator ==
    \A i \in 1..Len(dl_returns) : Cardinality(SignsFor(i)) <= 1

\* a reachable state C28 fails in: the same URL of the secure storage, in the same
\* block of the same page, was signed in the first call and signed again in the second
C28_Witness ==
    /\ Len(dl_returns) = 2
    /\ dl_returns[1].url = SecureUrl /\ dl_returns[1].block_id = "b"
    /\ SameReference(1, 2)
    /\ dl_returns[1].page_dir = dl_returns[2].page_dir
    /\ SignedIn(1) # {} /\ SignedIn(2) # {}
    /\ Cardinality(SignsFor(1)) = 2

\* the extent of C28: a call for a block without identifier sends no signing
\* request, a call for an http(s) locator at most one, a call for an attachment at
\* most two (one to resolve it, one to sign the URL it resolved to)
C28_SigningsPerCall ==
    \A i \in 1..Len(dl_returns) :
        /\ dl_returns[i].block_id = "" => SignsOf(i) = {}
        /\ IsHttp(dl_returns[i].url) => Cardinality(SignsOf(i)) <= 1
        /\ Cardinality(SignsOf(i)) <= 2

---------------------------------------------------------------------------
(* _parse_rich_text_recursive, one call at a time *)

MaxParts == 2

ColorOpen == "<span style=\"color: #787774\">"
BackgroundOpen == "<span style=\"background-color: #F1F1EF\">"

\* the pieces the texts of the model are put together from: a letter, the opening
\* of every construct with a letter after it, and the closings; the pieces come
\* matched, unmatched and, with three of them, nested
ScanPieces ==
    {"a",
     "*a", "**a", "***a", "~~a", Backquote \o "a", "[a", "<u>a",
     ColorOpen \o "a", BackgroundOpen \o "a",
     "*", "**", "***", "~~", Backquote, "](http://x)", "](y)", "</u>", "</span>"}

\* self.CSS_TO_NOTION_COLOR.get(color_css, "default")
NotionColor(color_css) ==
    IF color_css \in DOMAIN CSS_TO_NOTION_COLOR THEN CSS_TO_NOTION_COLOR[color_css]
    ELSE "default"

\* a construct found at the head of the text: its inner text, the text after it,
\* and the value it carries (the CSS color, the URL of a link)
Construct(kind, inner_text, remaining, value) ==
    [kind |-> kind, inner_text |-> inner_text, remaining |-> remaining, value |-> value]

\* lines 335-440: the patterns in the order they are tried
HeadMatch(text) ==
    LET color_match == SpanMatch(text, "<span style=\"color:")
        bg_match == SpanMatch(text, "<span style=\"background-color:")
        underline_match == DelimMatch(text, "<u>", "</u>", 0)
        bold_italic_match == DelimMatch(text, "***", "***", 1)
        bold_match == DelimMatch(text, "**", "**", 1)
        italic_match == DelimMatch(text, "*", "*", 1)
        strike_match == DelimMatch(text, "~~", "~~", 1)
        code_match == CodeMatch(text)
        link_match == LinkMatch(text)
    IN  IF color_match.ok
        THEN Construct("color", color_match.g2, color_match.g3, color_match.g1)
        ELSE IF bg_match.ok
        THEN Construct("background", bg_match.g2, bg_match.g3, bg_match.g1)
        ELSE IF underline_match.ok
        THEN Construct("underline", underline_match.g1, underline_match.g2, "")
        ELSE IF bold_italic_match.ok
        THEN Construct("bold_italic", bold_italic_match.g1, bold_italic_match.g2, "")
        ELSE IF bold_match.ok THEN Construct("bold", bold_match.g1, bold_match.g2, "")
        ELSE IF italic_match.ok THEN Construct("italic", italic_match.g1, italic_match.g2, "")
        ELSE IF strike_match.ok
        THEN Construct("strikethrough", strike_match.g1, strike_match.g2, "")
        ELSE IF code_match.ok THEN Construct("code", code_match.g1, code_match.g2, "")
        ELSE IF link_match.ok
        THEN Construct("link", link_match.g1, link_match.g3, link_match.g2)
        ELSE Construct("none", "", "", "")

\* a step of two characters after the literal
AfterLiteral_SkipsTwo(text) == From(text, 3)

\* line 461: text[1:]
AfterLiteral(text) == From(text, 2)

\* the texts the model gives to the first call
ScanTexts == {Join(ps, "") : ps \in UNION {[1..n -> ScanPieces] : n \in 1..MaxParts}}

RECURSIVE CallTexts(_)
\* the texts of the calls that a call with this text leads to, its own included
CallTexts(text) ==
    IF text = "" THEN {""}
    ELSE LET found == HeadMatch(text)
             next_special == NextSpecial(text)
         IN  {text} \cup
               (IF found.kind # "none"
                THEN CallTexts(found.inner_text) \cup CallTexts(found.remaining)
                ELSE IF next_special > 1 THEN CallTexts(From(text, next_special))
                ELSE CallTexts(AfterLiteral(text)))

\* HeadMatch of every text a call of the model can be given, computed once
HeadMatches == [text \in UNION {CallTexts(t) : t \in ScanTexts} |-> HeadMatch(text)]

\* new_annotations of each branch
NewAnnotations(found, annotations) ==
    CASE found.kind \in {"color", "background"} ->
           With(annotations, "color", NotionColor(found.value))
      [] found.kind = "underline" -> With(annotations, "underline", TRUE)
      [] found.kind = "bold_italic" -> With(With(annotations, "bold", TRUE), "italic", TRUE)
      [] found.kind = "bold" -> With(annotations, "bold", TRUE)
      [] found.kind = "italic" -> With(annotations, "italic", TRUE)
      [] found.kind = "strikethrough" -> With(annotations, "strikethrough", TRUE)
      [] found.kind = "code" -> With(annotations, "code", TRUE)
      [] found.kind = "link" -> annotations

\* how far into the text the inner text of a construct begins
InnerOffset(text, found) ==
    CASE found.kind \in {"color", "background"} ->
           Len(text) - Len(found.remaining) - Len("</span>") - Len(found.inner_text)
      [] found.kind = "underline" -> Len("<u>")
      [] found.kind = "bold_italic" -> 3
      [] found.kind \in {"bold", "strikethrough"} -> 2
      [] found.kind \in {"italic", "code", "link"} -> 1

\* a call of _parse_rich_text_recursive: its text and annotations, the link put on
\* the segments it appends ("" for none), where its text begins in sc_text, where
\* the call stands ("enter", "remaining", "return") and the text of the second
\* call it is to make
ScanFrame(text, annotations, link, at) ==
    [text |-> text, annotations |-> annotations, link |-> link, at |-> at,
     pc |-> "enter", remaining |-> ""]

ScanTop == sc_stack[Len(sc_stack)]
ScanPop == SubSeq(sc_stack, 1, Len(sc_stack) - 1)

\* the call on top goes on to position pc and calls itself with frame
ScanCall(pc, remaining, frame) ==
    Append([sc_stack EXCEPT ![Len(sc_stack)] = [@ EXCEPT !.pc = pc, !.remaining = remaining]],
           frame)

\* where a suffix of the text of the call on top begins in sc_text
SuffixAt(suffix) == ScanTop.at + Len(ScanTop.text) - Len(suffix)

InitScan ==
    /\ sc_pc = "text"
    /\ sc_parts = 0
    /\ sc_text = ""
    /\ sc_stack = <<>>
    /\ sc_segments = <<>>
    /\ sc_spans = <<>>
    /\ sc_delims = {}

\* the text to parse: at most MaxParts pieces, one after the other
AddPiece ==
    /\ sc_pc = "text" /\ sc_parts < MaxParts
    /\ \E piece \in ScanPieces : sc_text' = sc_text \o piece
    /\ sc_parts' = sc_parts + 1
    /\ UNCHANGED <<notScan, sc_pc, sc_stack, sc_segments, sc_spans, sc_delims>>

\* _rich_text, lines 325-326: the first call, with no annotations
FirstCall ==
    /\ sc_pc = "text" /\ sc_text # ""
    /\ \E frame \in {ScanFrame(sc_text, <<>>, "", 1)} : sc_stack' = <<frame>>
    /\ sc_pc' = "running"
    /\ UNCHANGED <<notScan, sc_parts, sc_text, sc_segments, sc_spans, sc_delims>>

RECURSIVE Returning(_)
\* the calls left when every call on top that has made its last call has returned
Returning(frames) ==
    IF frames # <<>> /\ frames[Len(frames)].pc = "return"
    THEN Returning(SubSeq(frames, 1, Len(frames) - 1))
    ELSE frames

\* lines 332-333: nothing left: the call returns, and with it every caller that was
\* in its last call
ReturnNothing ==
    /\ sc_pc = "running" /\ ScanTop.pc = "enter"
    /\ ScanTop.text = ""
    /\ \E left \in {Returning(ScanPop)} :
         /\ sc_stack' = left
         /\ sc_pc' = IF left = <<>> THEN "done" ELSE "running"
    /\ UNCHANGED <<notScan, sc_parts, sc_text, sc_segments, sc_spans, sc_delims>>

\* the call on top is at its start and the first pattern that matches its text is
\* the one of this kind
Matches(kind) ==
    /\ sc_pc = "running" /\ ScanTop.pc = "enter"
    /\ ScanTop.text # ""
    /\ HeadMatches[ScanTop.text].kind = kind

\* a pattern matched: the first call, on the inner text with the new annotations;
\* the markers of the construct are in neither call
CallInner ==
    /\ \E found \in {HeadMatches[ScanTop.text]} :
         /\ \E inner_at \in {ScanTop.at + InnerOffset(ScanTop.text, found)},
               remaining_at \in {SuffixAt(found.remaining)},
               link \in {IF found.kind = "link" /\ StartsWith(found.value, "http")
                         THEN found.value ELSE ScanTop.link},
               new_annotations \in {NewAnnotations(found, ScanTop.annotations)} :
              \E frame \in {ScanFrame(found.inner_text, new_annotations, link, inner_at)} :
              /\ sc_stack' = ScanCall("remaining", found.remaining, frame)
              /\ sc_delims' = sc_delims
                   \cup ((ScanTop.at .. (remaining_at - 1))
                           \ (inner_at .. (inner_at + Len(found.inner_text) - 1)))
    /\ UNCHANGED <<notScan, sc_pc, sc_parts, sc_text, sc_segments, sc_spans>>

\* lines 335-346
ColorSpan ==
    /\ Matches("color")
    /\ CallInner

\* lines 348-359
BackgroundSpan ==
    /\ Matches("background")
    /\ CallInner

\* lines 361-369
Underline ==
    /\ Matches("underline")
    /\ CallInner

\* lines 371-379
BoldItalic ==
    /\ Matches("bold_italic")
    /\ CallInner

\* lines 381-389
Bold ==
    /\ Matches("bold")
    /\ CallInner

\* lines 391-399
Italic ==
    /\ Matches("italic")
    /\ CallInner

\* lines 401-409
Strikethrough ==
    /\ Matches("strikethrough")
    /\ CallInner

\* lines 411-419
InlineCode ==
    /\ Matches("code")
    /\ CallInner

\* lines 421-440: the link is put on the segments of the link text
Link ==
    /\ Matches("link")
    /\ CallInner

\* the second call of a branch, on what follows the construct
CallRemaining ==
    /\ sc_pc = "running" /\ ScanTop.pc = "remaining"
    /\ \E frame \in {ScanFrame(ScanTop.remaining, ScanTop.annotations, ScanTop.link,
                                SuffixAt(ScanTop.remaining))} :
         sc_stack' = ScanCall("return", "", frame)
    /\ UNCHANGED <<notScan, sc_pc, sc_parts, sc_text, sc_segments, sc_spans, sc_delims>>

\* a segment is appended, and the call goes on with the rest of the text
AppendSegment(content, rest, rest_at, literal) ==
    /\ sc_segments' = Append(sc_segments,
                             [Segment(content, ScanTop.annotations) EXCEPT !.link = ScanTop.link])
    /\ sc_spans' = Append(sc_spans, [at |-> ScanTop.at, literal |-> literal,
                                     head |-> Char(ScanTop.text, 1),
                                     annotations |-> ScanTop.annotations,
                                     next |-> rest_at])
    /\ \E frame \in {ScanFrame(rest, ScanTop.annotations, ScanTop.link, rest_at)} :
         sc_stack' = ScanCall("return", "", frame)

\* lines 449-456: the plain text up to the next special character
PlainText ==
    /\ sc_pc = "running" /\ ScanTop.pc = "enter"
    /\ ScanTop.text # ""
    /\ HeadMatches[ScanTop.text].kind = "none"
    /\ \E next_special \in {NextSpecial(ScanTop.text)} :
         /\ next_special > 1
         /\ \E plain_text \in {Sub(ScanTop.text, 1, next_special - 1)},
               rest \in {From(ScanTop.text, next_special)} :
              AppendSegment(plain_text, rest, SuffixAt(rest), FALSE)
    /\ UNCHANGED <<notScan, sc_pc, sc_parts, sc_text, sc_delims>>

\* lines 457-463: a special character at the start that no pattern matched
LiteralCharacter ==
    /\ sc_pc = "running" /\ ScanTop.pc = "enter"
    /\ ScanTop.text # ""
    /\ HeadMatches[ScanTop.text].kind = "none"
    /\ \E next_special \in {NextSpecial(ScanTop.text)} :
         /\ next_special = 1
         /\ \E rest \in {AfterLiteral(ScanTop.text)} :
              AppendSegment(Char(ScanTop.text, 1), rest, SuffixAt(rest), TRUE)
    /\ UNCHANGED <<notScan, sc_pc, sc_parts, sc_text, sc_delims>>

NextScan ==
    \/ AddPiece
    \/ FirstCall
    \/ ReturnNothing
    \/ ColorSpan
    \/ BackgroundSpan
    \/ Underline
    \/ BoldItalic
    \/ Bold
    \/ Italic
    \/ Strikethrough
    \/ InlineCode
    \/ Link
    \/ CallRemaining
    \/ PlainText
    \/ LiteralCharacter

ScanInit == InitScan /\ IdleExcept("scan")

ScanSpec == ScanInit /\ [][NextScan]_vars

\* a call that can go on does go on
FairScanSpec == ScanSpec /\ WF_vars(NextScan)

---------------------------------------------------------------------------
(* Claims about the recursion of the rich text parser *)

\* every call under way has a shorter text than the call that made it
ShorterCalls ==
    \A k \in 2..Len(sc_stack) : Len(sc_stack[k].text) < Len(sc_stack[k - 1].text)

\* a segment made of a special character that matched nothing: it is that one
\* character, with the annotations of the call, and the scan goes on one further
LiteralSpans ==
    \A k \in 1..Len(sc_spans) :
        sc_spans[k].literal
          => /\ sc_spans[k].head \in {"<", "*", "~", Backquote, "["}
             /\ sc_segments[k].content = sc_spans[k].head
             /\ sc_segments[k].annotations = sc_spans[k].annotations
             /\ sc_spans[k].next = sc_spans[k].at + 1

\* the positions of sc_text the text of segment k was taken from
SpanPositions(k) == sc_spans[k].at .. (sc_spans[k].at + Len(sc_segments[k].content) - 1)

\* every segment is the text of sc_text at its place, the segments follow each other
\* in the order of the text, and what is in no segment is a delimiter of a matched
\* construct (the markers, the tags, the bracket and the parenthesised URL of a link)
TextKept ==
    /\ \A k \in 1..Len(sc_spans) :
         /\ sc_segments[k].content # ""
         /\ sc_segments[k].content
              = Sub(sc_text, sc_spans[k].at, sc_spans[k].at + Len(sc_segments[k].content) - 1)
         /\ SpanPositions(k) \cap sc_delims = {}
         /\ k > 1 => sc_spans[k - 1].at + Len(sc_segments[k - 1].content) <= sc_spans[k].at
    /\ sc_pc = "done"
         => UNION {SpanPositions(k) : k \in 1..Len(sc_spans)} \cup sc_delims = 1..Len(sc_text)

ScanIsParseRichTextRecursive ==
    sc_pc = "done" => sc_segments = ParseRichTextRecursive(sc_text, <<>>)

=============================================================================
